---- MODULE Spec2Model ----
(***************************************************************************)
(* Memory-constrained DAG scheduler (src/src/scheduler.cpp).               *)
(* The model covers the accounting kernel, the frontier and pruning rules, *)
(* the spill policy and garbage collection, the exhaustive and the bounded *)
(* depth-first searches, and the greedy / heuristic / beam schedulers.     *)
(*                                                                         *)
(* Modelling notes                                                         *)
(*  - int/long arithmetic is modelled on the integers: every quantity in   *)
(*    the bounded problems below is far from 2^31, so no overflow occurs.  *)
(*  - Node::getInputs() is a vector; every use of it in the scheduler is a *)
(*    membership test, so inputs are modelled as a set of names.           *)
(*  - std::unordered_map iteration order is unspecified: the order of      *)
(*    prob.nodes is an arbitrary permutation fixed at construction         *)
(*    (node_order); ties decided by the order of output_memory are a       *)
(*    nondeterministic choice.                                             *)
(***************************************************************************)
EXTENDS Integers, Sequences, FiniteSets, TLC

VARIABLES
    prob,           \* Problem: [total_memory, nodes]                (model.hpp:44-49)
    node_order,     \* iteration order of the unordered_map prob.nodes
    algo,           \* which scheduler entry point is running
    pc,             \* "run" while the scheduler runs, "done" once it returned
    stack,          \* recursion frames of dfsSchedule / dfsScheduleLimited
    best,           \* stored best schedule
    has_best,       \* whether best holds a schedule
    expansionsLeft, \* remaining expansions of the bounded DFS
    deadline_passed,\* steady_clock::now() > deadline
    stats,          \* DebugStats counters
    max_expansions, \* the maxExpansions argument
    cur,            \* the state of greedySchedule / heuristicSchedule
    beam,           \* beamSearchSchedule: current beam
    nextBeam,       \* beamSearchSchedule: beam under construction
    beam_i,         \* beamSearchSchedule: index into beam of the inner loop
    expansions,     \* beamSearchSchedule: expansions performed
    beamWidth,      \* the beamWidth argument
    lookaheadDepth, \* dpGreedySchedule: the lookaheadDepth argument
    branchFactor,   \* dpGreedySchedule: the branchFactor argument
    first_result,   \* what an earlier run on the same Problem and tunables returned
    result,         \* the ScheduleState handed back to the caller
    cmp             \* inputs and result of an isBetterSchedule call

vars == <<prob, node_order, algo, pc, stack, best, has_best, expansionsLeft,
          deadline_passed, stats, max_expansions, cur, beam, nextBeam, beam_i,
          expansions, beamWidth, lookaheadDepth, branchFactor, first_result, result, cmp>>

---------------------------------------------------------------------------
(* Bounds                                                                  *)

\* largest maxExpansions argument tried
MaxExpansions == 6
\* largest beamWidth argument tried
MaxBeamWidth == 2
\* largest total_time / memory_peak of the schedules compared directly
MaxCmp == 3
\* largest lookaheadDepth argument tried
MaxLookaheadDepth == 2
\* largest branchFactor argument tried
MaxBranchFactor == 2

---------------------------------------------------------------------------
(* Generic helpers                                                         *)

Max(a, b) == IF a >= b THEN a ELSE b

Min(a, b) == IF a <= b THEN a ELSE b

RECURSIVE SumOver(_, _)
SumOver(f, S) ==
    IF S = {} THEN 0
    ELSE LET x == CHOOSE y \in S : TRUE IN f[x] + SumOver(f, S \ {x})

Range(s) == {s[i] : i \in 1..Len(s)}

Perms(S) == {p \in [1..Cardinality(S) -> S] : \A i, j \in 1..Cardinality(S) : p[i] = p[j] => i = j}

EmptyMap == [x \in {} |-> 0]

---------------------------------------------------------------------------
(* Graph model                                                             *)

Names == {"A", "B", "C", "D"}

\* Node(name, inputs, run_mem, output_mem, time_cost)
MkNode(inputs, run_mem, output_mem, time_cost) ==
    [inputs |-> inputs, run_mem |-> run_mem, output_mem |-> output_mem, time_cost |-> time_cost]

\* the peak of a node taken to be its run_mem
getPeak_RunMem(node) == node.run_mem

\* Node::getPeak(): peak_ = std::max(run_mem_, output_mem_)
getPeak(node) == Max(node.run_mem, node.output_mem)

\* prob.dependencies[u] / prob.successors[u]: the consumers of u
Consumers(u) == {n \in DOMAIN prob.nodes : u \in prob.nodes[n].inputs}

\* prob.dependencies has a key exactly for the names that occur as an input
HasDependencyEntry(u) == Consumers(u) # {}

\* prob.successors has a key for every node and every name that occurs as an input
HasSuccessorEntry(u) == u \in DOMAIN prob.nodes \/ Consumers(u) # {}

\* ScheduleState{}.  resident_log, memory_log, spill_run and spill_base are
\* history fields that the program does not hold: the set of resident
\* outputs and the value of current_memory just before each execution, the
\* number of spills since the last execution and the number of resident
\* outputs when that run of spills began.
EmptyState ==
    [execution_order |-> <<>>, recompute_flags |-> <<>>, current_memory |-> 0,
     memory_peak |-> 0, total_time |-> 0, computed |-> {}, output_memory |-> EmptyMap,
     resident_log |-> <<>>, memory_log |-> <<>>, spill_run |-> 0, spill_base |-> 0]

\* the fields of ScheduleState the program holds
Core(s) ==
    [execution_order |-> s.execution_order, recompute_flags |-> s.recompute_flags,
     current_memory |-> s.current_memory, memory_peak |-> s.memory_peak,
     total_time |-> s.total_time, computed |-> s.computed, output_memory |-> s.output_memory]

Resident(state) == DOMAIN state.output_memory

Erase(om, S) == [x \in (DOMAIN om) \ S |-> om[x]]

Put(om, k, v) == [x \in (DOMAIN om) \cup {k} |-> IF x = k THEN v ELSE om[x]]

---------------------------------------------------------------------------
(* Accounting kernel                                                       *)

\* the sequential peak computed without the resident memory
calculateSequentialPeak_NoResident(state, node_B, impact_A) ==
    LET peak_B == getPeak(node_B)
    IN  Max(state.memory_peak, peak_B)

calculateSequentialPeak(state, node_B, impact_A) ==
    LET peak_B == getPeak(node_B)
    IN  Max(state.memory_peak, peak_B + impact_A)

\* isBetterSchedule with the final tie-break written as <=
isBetterSchedule_TieLeq(state1, state2, total_memory) ==
    LET s1_valid == state1.memory_peak <= total_memory
        s2_valid == state2.memory_peak <= total_memory
    IN  IF ~s1_valid /\ ~s2_valid THEN FALSE
        ELSE IF s1_valid /\ ~s2_valid THEN TRUE
        ELSE IF ~s1_valid /\ s2_valid THEN FALSE
        ELSE IF state1.total_time # state2.total_time THEN state1.total_time < state2.total_time
        ELSE state1.memory_peak <= state2.memory_peak

isBetterSchedule(state1, state2, total_memory) ==
    LET s1_valid == state1.memory_peak <= total_memory
        s2_valid == state2.memory_peak <= total_memory
    IN  IF ~s1_valid /\ ~s2_valid THEN FALSE
        ELSE IF s1_valid /\ ~s2_valid THEN TRUE
        ELSE IF ~s1_valid /\ s2_valid THEN FALSE
        ELSE IF state1.total_time # state2.total_time THEN state1.total_time < state2.total_time
        ELSE state1.memory_peak < state2.memory_peak

\* every input freed, whatever its consumers
getFreeableInputs_All(node, state) == node.inputs

\* no input ever freed
getFreeableInputs_None(node, state) == {}

getFreeableInputs(node, state) ==
    {input_name \in node.inputs :
        \/ ~HasDependencyEntry(input_name)
        \/ \A consumer \in Consumers(input_name) : consumer \in state.computed}

calculateDynamicImpact(node_name, state) ==
    LET node == prob.nodes[node_name]
        postState == [state EXCEPT !.computed = @ \cup {node_name}]
        freeable == getFreeableInputs(node, postState)
        freed == SumOver(state.output_memory, freeable \cap Resident(state))
    IN  node.output_mem - freed

\* the recompute flag never set
IsRecompute_Never(node_name, state) == FALSE

\* line 104: the recompute flag of an execution of node_name from state
IsRecompute(node_name, state) == node_name \in state.computed

\* the insertion into computed left out
InsertComputed_Skip(node_name, state) == state.computed

\* line 106: next.computed.insert(node.getName())
InsertComputed(node_name, state) == state.computed \cup {node_name}

executeNode(node_name, state) ==
    LET node == prob.nodes[node_name]
        predicted_peak == calculateSequentialPeak(state, node, state.current_memory)
        postStateForFree == [state EXCEPT !.computed = @ \cup {node_name}]
        freeable == getFreeableInputs(node, postStateForFree)
        present == freeable \cap Resident(state)
        freed == SumOver(state.output_memory, present)
        impact == node.output_mem - freed
        new_current == Max(0, state.current_memory + impact)
        isRecompute == IsRecompute(node_name, state)
    IN  [execution_order |-> Append(state.execution_order, node_name),
         recompute_flags |-> Append(state.recompute_flags, isRecompute),
         current_memory |-> new_current,
         memory_peak |-> Max(state.memory_peak, predicted_peak),
         total_time |-> state.total_time + node.time_cost,
         computed |-> InsertComputed(node_name, state),
         output_memory |-> Put(Erase(state.output_memory, present), node_name, node.output_mem),
         resident_log |-> Append(state.resident_log, Resident(state)),
         memory_log |-> Append(state.memory_log, state.current_memory),
         spill_run |-> 0,
         spill_base |-> Cardinality((Resident(state) \ present) \cup {node_name})]

---------------------------------------------------------------------------
(* Frontier and pruning                                                    *)

\* readiness tested on computed instead of on the resident outputs
getReadyNodeNames_ByComputed(state) ==
    SelectSeq(node_order, LAMBDA name :
        /\ name \notin state.computed
        /\ \A inName \in prob.nodes[name].inputs : inName \in state.computed)

getReadyNodeNames(state) ==
    SelectSeq(node_order, LAMBDA name :
        /\ name \notin state.computed
        /\ \A inName \in prob.nodes[name].inputs : inName \in Resident(state))

\* an uncomputed consumer of name is recorded in prob.successors
NeededOutput(name, state) ==
    /\ HasSuccessorEntry(name)
    /\ \E cons \in Consumers(name) : cons \notin state.computed

\* the residency of the inputs is not tested
getRecomputeCandidates_NoInputTest(state) ==
    SelectSeq(node_order, LAMBDA name :
        /\ name \notin Resident(state)
        /\ NeededOutput(name, state))

getRecomputeCandidates(state) ==
    SelectSeq(node_order, LAMBDA name :
        /\ name \notin Resident(state)
        /\ NeededOutput(name, state)
        /\ \A inName \in prob.nodes[name].inputs : inName \in Resident(state))

\* only the last candidate kept
pruneReadyListDynamic_Last(ready_names, state) ==
    IF ready_names = <<>> THEN <<>> ELSE <<ready_names[Len(ready_names)]>>

\* no pruning: the candidates are returned as they came
pruneReadyListDynamic_None(ready_names, state) == ready_names

pruneReadyListDynamic(ready_names, state) ==
    LET negative == {i \in 1..Len(ready_names) : calculateDynamicImpact(ready_names[i], state) <= 0}
        peakOf(i) == getPeak(prob.nodes[ready_names[i]])
        \* the loop keeps the first candidate of strictly smallest peak
        bestIdx == CHOOSE i \in negative :
                      \A j \in negative : peakOf(i) < peakOf(j) \/ (peakOf(i) = peakOf(j) /\ i <= j)
        best_name == ready_names[bestIdx]
        min_negative_peak == peakOf(bestIdx)
        predicted_peak == calculateSequentialPeak(state, prob.nodes[best_name], state.current_memory)
        pruned == SelectSeq(ready_names, LAMBDA nm :
                      nm = best_name \/ getPeak(prob.nodes[nm]) < min_negative_peak)
    IN  IF negative = {} THEN ready_names
        ELSE IF predicted_peak <= state.memory_peak THEN <<best_name>>
        ELSE IF pruned = <<>> THEN ready_names ELSE pruned

---------------------------------------------------------------------------
(* Spill policy and garbage collection                                     *)

\* remaining == 0 in trySpillBest: no consumer of name is uncomputed
NoRemainingConsumer(name, state) ==
    ~HasSuccessorEntry(name) \/ \A cons \in Consumers(name) : cons \in state.computed

\* score(a) > score(b) with score = sz / max(1, time_cost), as exact rationals
ScoreGreater(a, b, state) ==
    state.output_memory[a] * Max(1, prob.nodes[b].time_cost)
        > state.output_memory[b] * Max(1, prob.nodes[a].time_cost)

\* trySpillBest erasing any resident output, whatever its score
trySpillBest_Any(state) ==
    LET known == {name \in Resident(state) : name \in DOMAIN prob.nodes}
        dropped == {name \in known : NoRemainingConsumer(name, state)}
        after_loop == Max(0, state.current_memory - SumOver(state.output_memory, dropped))
    IN  IF known = {}
        THEN {[ok |-> FALSE, state |-> state]}
        ELSE {[ok |-> TRUE,
               state |-> [state EXCEPT
                   !.output_memory = Erase(@, {bst}),
                   !.current_memory = Max(0, after_loop - state.output_memory[bst]),
                   !.spill_run = @ + 1]] : bst \in known}

\* trySpillBest reporting success without erasing the top scorer
trySpillBest_NoErase(state) ==
    IF {name \in Resident(state) : name \in DOMAIN prob.nodes} = {}
    THEN {[ok |-> FALSE, state |-> state]}
    ELSE {[ok |-> TRUE, state |-> state]}

\* The set of outcomes [ok, state] of trySpillBest: the loop subtracts the
\* size of every resident output without remaining consumer from
\* current_memory, leaving the entry in place, then the top scorer is erased
\* and its size subtracted.  The top scorer among equal scores is the first
\* in the iteration order of output_memory.
trySpillBest(state) ==
    LET known == {name \in Resident(state) : name \in DOMAIN prob.nodes}
        dropped == {name \in known : NoRemainingConsumer(name, state)}
        after_loop == Max(0, state.current_memory - SumOver(state.output_memory, dropped))
        tops == {name \in known : \A other \in known : ~ScoreGreater(other, name, state)}
    IN  IF known = {}
        THEN {[ok |-> FALSE, state |-> state]}
        ELSE {[ok |-> TRUE,
               state |-> [state EXCEPT
                   !.output_memory = Erase(@, {bst}),
                   !.current_memory = Max(0, after_loop - state.output_memory[bst]),
                   !.spill_run = @ + 1]] : bst \in tops}

\* The set of outcomes [ok, state] of trySpillLargest
trySpillLargest(state) ==
    LET largest == {name \in Resident(state) :
                       \A other \in Resident(state) : state.output_memory[other] <= state.output_memory[name]}
    IN  IF Resident(state) = {}
        THEN {[ok |-> FALSE, state |-> state]}
        ELSE {[ok |-> TRUE,
               state |-> [state EXCEPT
                   !.output_memory = Erase(@, {it}),
                   !.current_memory = Max(0, @ - state.output_memory[it]),
                   !.spill_run = @ + 1]] : it \in largest}

\* trySpillBest(prob, spilled) || trySpillLargest(spilled)
SpillOutcomes(state) ==
    UNION {IF r.ok THEN {r} ELSE trySpillLargest(r.state) : r \in trySpillBest(state)}

\* a collection that erases one unneeded output per call
garbageCollectOutputs_One(state) ==
    LET unneeded == {name \in Resident(state) : ~NeededOutput(name, state)}
        toErase == IF unneeded = {} THEN {} ELSE {CHOOSE name \in unneeded : TRUE}
    IN  [state EXCEPT
            !.output_memory = Erase(@, toErase),
            !.current_memory = Max(0, @ - SumOver(state.output_memory, toErase))]

garbageCollectOutputs(state) ==
    LET toErase == {name \in Resident(state) : ~NeededOutput(name, state)}
    IN  [state EXCEPT
            !.output_memory = Erase(@, toErase),
            !.current_memory = Max(0, @ - SumOver(state.output_memory, toErase))]

---------------------------------------------------------------------------
(* Problems: buildProblem(total_memory, specs)                             *)

buildProblem(total_memory, specs) == [total_memory |-> total_memory, nodes |-> specs]

Spec1(name, n) == [x \in {name} |-> n]

\* merge of two keyed collections with disjoint keys
Merge(f, g) == [x \in (DOMAIN f) \cup (DOMAIN g) |-> IF x \in DOMAIN f THEN f[x] ELSE g[x]]

\* the concrete graphs: linear chain, diamond, memory-freeing prune, two
\* producers under a tight budget, shared producer under a tight budget,
\* a node larger than the budget, a wide graph with a sink, a two-node
\* cycle and an input that names no node
LinearChain ==
    buildProblem(100, Merge(Spec1("A", MkNode({}, 10, 20, 1)),
                      Merge(Spec1("B", MkNode({"A"}, 10, 20, 1)),
                            Spec1("C", MkNode({"B"}, 10, 20, 1)))))

Diamond ==
    buildProblem(100, Merge(Spec1("A", MkNode({}, 10, 40, 1)),
                      Merge(Spec1("B", MkNode({"A"}, 10, 20, 1)),
                      Merge(Spec1("C", MkNode({"A"}, 10, 20, 1)),
                            Spec1("D", MkNode({"B", "C"}, 10, 10, 1))))))

MemoryFreeingPrune ==
    buildProblem(50,  Merge(Spec1("A", MkNode({}, 1, 40, 1)),
                      Merge(Spec1("B", MkNode({}, 1, 5, 1)),
                            Spec1("C", MkNode({"A"}, 1, 5, 1)))))

TwoProducers ==
    buildProblem(30,  Merge(Spec1("A", MkNode({}, 1, 20, 5)),
                      Merge(Spec1("B", MkNode({"A"}, 1, 5, 1)),
                      Merge(Spec1("C", MkNode({}, 1, 20, 5)),
                            Spec1("D", MkNode({"B", "C"}, 1, 1, 1))))))

SharedProducer ==
    buildProblem(25,  Merge(Spec1("A", MkNode({}, 1, 20, 5)),
                      Merge(Spec1("B", MkNode({"A"}, 1, 5, 1)),
                            Spec1("C", MkNode({"A"}, 1, 5, 1)))))

OversizedNode == buildProblem(5, Spec1("A", MkNode({}, 1, 10, 1)))

\* a producer whose run_mem exceeds every later residency: after A the peak
\* is 30 and its consumer B (impact 0) runs below it, C being ready as well
RunHeavyProducer ==
    buildProblem(50,  Merge(Spec1("A", MkNode({}, 30, 5, 1)),
                      Merge(Spec1("B", MkNode({"A"}, 1, 5, 1)),
                            Spec1("C", MkNode({}, 1, 5, 1)))))

\* a sink B beside a producer A whose consumer C has an output smaller than B
SmallConsumer ==
    buildProblem(25,  Merge(Spec1("A", MkNode({}, 1, 20, 5)),
                      Merge(Spec1("B", MkNode({}, 1, 5, 1)),
                            Spec1("C", MkNode({"A"}, 1, 1, 1)))))

ScenarioProblems ==
    { LinearChain, Diamond, MemoryFreeingPrune, TwoProducers, SharedProducer, OversizedNode,
      RunHeavyProducer, SmallConsumer,
      buildProblem(2,   Merge(Spec1("A", MkNode({}, 1, 1, 1)),
                              Spec1("B", MkNode({}, 3, 1, 1)))),
      buildProblem(10,  Merge(Spec1("A", MkNode({"B"}, 1, 1, 1)),
                              Spec1("B", MkNode({"A"}, 1, 1, 1)))),
      buildProblem(10,  Merge(Spec1("A", MkNode({"Z"}, 1, 1, 1)),
                              Spec1("B", MkNode({}, 1, 1, 1)))) }

\* a family of three-node graphs: every input set that names earlier nodes,
\* small and large outputs, cheap and expensive producer, a tight budget
OutputSizes == {5, 20}

TimeCosts == {1, 5}

Budgets == {25}

FamilyProblems ==
    { buildProblem(m, Merge(Spec1("A", MkNode({}, 1, oa, ta)),
                      Merge(Spec1("B", MkNode(ib, 1, ob, 1)),
                            Spec1("C", MkNode(ic, 1, oc, 1))))) :
        m \in Budgets, oa \in OutputSizes, ob \in OutputSizes, oc \in OutputSizes,
        ta \in TimeCosts, ib \in SUBSET {"A"}, ic \in SUBSET {"A", "B"} }

Problems == ScenarioProblems \cup FamilyProblems

Algos == {"schedule", "scheduleWithLimits", "greedySchedule", "heuristicSchedule", "beamSearchSchedule",
          "dpGreedySchedule"}

NoCmp == [called |-> FALSE]

\* no earlier run has returned
NoResult == [returned |-> FALSE, state |-> EmptyState]

\* a recursion frame: the state it owns, the pruned candidate list and the
\* index of the next sibling; at = "enter" before the body of the call ran,
\* "loop" while it iterates over the candidates
Frame(state) == [state |-> state, ready |-> <<>>, i |-> 1, at |-> "enter"]

Init ==
    /\ prob \in Problems
    /\ node_order \in Perms(DOMAIN prob.nodes)
    /\ algo \in Algos
    /\ pc = "run"
    /\ max_expansions \in (IF algo \in {"scheduleWithLimits", "beamSearchSchedule"}
                           THEN 1..MaxExpansions ELSE {0})
    /\ beamWidth \in (IF algo = "beamSearchSchedule" THEN 1..MaxBeamWidth ELSE {0})
    /\ lookaheadDepth \in (IF algo = "dpGreedySchedule" THEN 0..MaxLookaheadDepth ELSE {0})
    /\ branchFactor \in (IF algo = "dpGreedySchedule" THEN 0..MaxBranchFactor ELSE {0})
    /\ first_result = NoResult
    /\ stack = IF algo \in {"schedule", "scheduleWithLimits"} THEN <<Frame(EmptyState)>> ELSE <<>>
    /\ best = EmptyState
    /\ has_best = FALSE
    /\ expansionsLeft = max_expansions
    /\ deadline_passed = FALSE
    /\ stats = [expansions |-> 0, prunedByMemory |-> 0, deadEnds |-> 0]
    /\ cur = EmptyState
    /\ beam = IF algo = "beamSearchSchedule" THEN <<EmptyState>> ELSE <<>>
    /\ nextBeam = <<>>
    /\ beam_i = 1
    /\ expansions = 0
    /\ result = EmptyState
    /\ cmp = NoCmp

Top == stack[Len(stack)]

Pop == SubSeq(stack, 1, Len(stack) - 1)

SetTop(f) == [stack EXCEPT ![Len(stack)] = f]

\* completeness tested on the number of executions
IsComplete_BySteps(state) == Len(state.execution_order) >= Cardinality(DOMAIN prob.nodes)

\* current.computed.size() == prob.nodes.size()
IsComplete(state) == Cardinality(state.computed) = Cardinality(DOMAIN prob.nodes)

\* the stored best replaced by every complete schedule
ShouldReplaceBest_Always(current) == TRUE

\* if (!has_best || isBetterSchedule(current, best, prob.total_memory))
ShouldReplaceBest(current) == ~has_best \/ isBetterSchedule(current, best, prob.total_memory)

\* the record of a call isBetterSchedule(state1, state2, total_memory)
Call(state1, state2, total_memory) ==
    [called |-> TRUE, state1 |-> state1, state2 |-> state2, total_memory |-> total_memory,
     result |-> isBetterSchedule(state1, state2, total_memory)]

\* the comparison is evaluated only when a best is stored (short-circuit ||)
CompareWithBest(current) ==
    IF has_best THEN cmp' = Call(current, best, prob.total_memory) ELSE UNCHANGED cmp

Predicted(nm, state) == calculateSequentialPeak(state, prob.nodes[nm], state.current_memory)

---------------------------------------------------------------------------
(* Bounded DFS: dfsScheduleLimited, scheduleWithLimits, scheduleWithDebug    *)

LimitHit == deadline_passed \/ expansionsLeft = 0

\* the recompute candidates listed after the ready nodes in every call
LimitedCandidates_Both(state) ==
    getReadyNodeNames(state) \o
        SelectSeq(getRecomputeCandidates(state), LAMBDA nm : nm \notin Range(getReadyNodeNames(state)))

\* the candidate list of a call: the ready set, else the recompute candidates
LimitedCandidates(state) ==
    IF getReadyNodeNames(state) # <<>> THEN getReadyNodeNames(state)
    ELSE getRecomputeCandidates(state)

AllExceed(ready, state) == \A k \in 1..Len(ready) : Predicted(ready[k], state) > prob.total_memory

AtLimited(at) == algo = "scheduleWithLimits" /\ pc = "run" /\ stack # <<>> /\ Top.at = at

LimitedUnchanged == UNCHANGED <<prob, node_order, algo, pc, deadline_passed, max_expansions,
                                cur, beam, nextBeam, beam_i, expansions, beamWidth,
                                lookaheadDepth, branchFactor, first_result, result>>

\* the wall clock passes the deadline
DeadlineFires ==
    /\ algo = "scheduleWithLimits" /\ pc = "run" /\ ~deadline_passed
    /\ deadline_passed' = TRUE
    /\ UNCHANGED <<prob, node_order, algo, pc, stack, best, has_best, expansionsLeft, stats,
                   max_expansions, cur, beam, nextBeam, beam_i, expansions, beamWidth,
                   lookaheadDepth, branchFactor, first_result, result, cmp>>

\* line 258: return on the deadline or on an exhausted expansion counter
DfsLimitedStop ==
    /\ AtLimited("enter") /\ LimitHit
    /\ stack' = Pop
    /\ UNCHANGED <<best, has_best, expansionsLeft, stats>>
    /\ UNCHANGED cmp
    /\ LimitedUnchanged

\* lines 259-262: a complete state is compared against the stored best
DfsLimitedComplete ==
    /\ AtLimited("enter") /\ ~LimitHit /\ IsComplete(Top.state)
    /\ IF ShouldReplaceBest(Top.state)
       THEN best' = Top.state /\ has_best' = TRUE
       ELSE UNCHANGED <<best, has_best>>
    /\ stack' = Pop
    /\ UNCHANGED <<expansionsLeft, stats>>
    /\ CompareWithBest(Top.state)
    /\ LimitedUnchanged

\* lines 263-268: neither a ready node nor a recompute candidate
DfsLimitedDeadEnd ==
    /\ AtLimited("enter") /\ ~LimitHit /\ ~IsComplete(Top.state)
    /\ LimitedCandidates(Top.state) = <<>>
    /\ stats' = [stats EXCEPT !.deadEnds = @ + 1]
    /\ stack' = Pop
    /\ UNCHANGED <<best, has_best, expansionsLeft>>
    /\ UNCHANGED cmp
    /\ LimitedUnchanged

\* lines 277-283: every pruned candidate exceeds the budget and a spill
\* succeeds; the call recurses on the spilled copy and returns afterwards,
\* so the callee's frame takes the place of the caller's
DfsLimitedSpill ==
    /\ AtLimited("enter") /\ ~LimitHit /\ ~IsComplete(Top.state)
    /\ LimitedCandidates(Top.state) # <<>>
    /\ AllExceed(pruneReadyListDynamic(LimitedCandidates(Top.state), Top.state), Top.state)
    /\ \E r \in SpillOutcomes(Top.state) :
          /\ r.ok
          /\ stack' = SetTop(Frame(r.state))
    /\ UNCHANGED <<best, has_best, expansionsLeft, stats>>
    /\ UNCHANGED cmp
    /\ LimitedUnchanged

\* lines 277-283: every pruned candidate exceeds the budget and nothing can be spilled
DfsLimitedSpillFail ==
    /\ AtLimited("enter") /\ ~LimitHit /\ ~IsComplete(Top.state)
    /\ LimitedCandidates(Top.state) # <<>>
    /\ AllExceed(pruneReadyListDynamic(LimitedCandidates(Top.state), Top.state), Top.state)
    /\ \E r \in SpillOutcomes(Top.state) : ~r.ok
    /\ stack' = Pop
    /\ UNCHANGED <<best, has_best, expansionsLeft, stats>>
    /\ UNCHANGED cmp
    /\ LimitedUnchanged

\* lines 263-276, 284: some pruned candidate fits, the call starts its loop
DfsLimitedBranch ==
    /\ AtLimited("enter") /\ ~LimitHit /\ ~IsComplete(Top.state)
    /\ LimitedCandidates(Top.state) # <<>>
    /\ LET ready == pruneReadyListDynamic(LimitedCandidates(Top.state), Top.state)
       IN  /\ ~AllExceed(ready, Top.state)
           /\ stack' = SetTop([Top EXCEPT !.ready = ready, !.i = 1, !.at = "loop"])
    /\ UNCHANGED <<best, has_best, expansionsLeft, stats>>
    /\ UNCHANGED cmp
    /\ LimitedUnchanged

\* line 284: the loop is over, the call returns
DfsLimitedLoopEnd ==
    /\ AtLimited("loop") /\ Top.i > Len(Top.ready)
    /\ stack' = Pop
    /\ UNCHANGED <<best, has_best, expansionsLeft, stats>>
    /\ UNCHANGED cmp
    /\ LimitedUnchanged

\* line 285: the limits are checked between siblings
DfsLimitedLoopStop ==
    /\ AtLimited("loop") /\ Top.i <= Len(Top.ready) /\ LimitHit
    /\ stack' = Pop
    /\ UNCHANGED <<best, has_best, expansionsLeft, stats>>
    /\ UNCHANGED cmp
    /\ LimitedUnchanged

\* line 288: the candidate exceeds the budget
DfsLimitedLoopPrune ==
    /\ AtLimited("loop") /\ Top.i <= Len(Top.ready) /\ ~LimitHit
    /\ Predicted(Top.ready[Top.i], Top.state) > prob.total_memory
    /\ stats' = [stats EXCEPT !.prunedByMemory = @ + 1]
    /\ stack' = SetTop([Top EXCEPT !.i = @ + 1])
    /\ UNCHANGED <<best, has_best, expansionsLeft>>
    /\ UNCHANGED cmp
    /\ LimitedUnchanged

\* the candidate executed without the limit test of line 285
DfsLimitedLoopExecute_NoLimitTest ==
    /\ AtLimited("loop") /\ Top.i <= Len(Top.ready)
    /\ Predicted(Top.ready[Top.i], Top.state) <= prob.total_memory
    /\ LET next == executeNode(Top.ready[Top.i], Top.state)
       IN  stack' = Append(SetTop([Top EXCEPT !.i = @ + 1]), Frame(next))
    /\ expansionsLeft' = expansionsLeft - 1
    /\ stats' = [stats EXCEPT !.expansions = @ + 1]
    /\ UNCHANGED <<best, has_best>>
    /\ UNCHANGED cmp
    /\ LimitedUnchanged

\* lines 289-296: the candidate is executed and the search recurses
DfsLimitedLoopExecute ==
    /\ AtLimited("loop") /\ Top.i <= Len(Top.ready) /\ ~LimitHit
    /\ Predicted(Top.ready[Top.i], Top.state) <= prob.total_memory
    /\ LET next == executeNode(Top.ready[Top.i], Top.state)
       IN  stack' = Append(SetTop([Top EXCEPT !.i = @ + 1]), Frame(next))
    /\ expansionsLeft' = expansionsLeft - 1
    /\ stats' = [stats EXCEPT !.expansions = @ + 1]
    /\ UNCHANGED <<best, has_best>>
    /\ UNCHANGED cmp
    /\ LimitedUnchanged

\* line 308: return has_best ? best : ScheduleState{}
ScheduleWithLimitsReturn ==
    /\ algo = "scheduleWithLimits" /\ pc = "run" /\ stack = <<>>
    /\ result' = IF has_best THEN best ELSE EmptyState
    /\ pc' = "done"
    /\ UNCHANGED <<prob, node_order, algo, stack, best, has_best, expansionsLeft, deadline_passed,
                   stats, max_expansions, cur, beam, nextBeam, beam_i, expansions, beamWidth,
                   lookaheadDepth, branchFactor, first_result, cmp>>

\* the steps of the program itself
LimitedProgress ==
    \/ DfsLimitedStop
    \/ DfsLimitedComplete
    \/ DfsLimitedDeadEnd
    \/ DfsLimitedSpill
    \/ DfsLimitedSpillFail
    \/ DfsLimitedBranch
    \/ DfsLimitedLoopEnd
    \/ DfsLimitedLoopStop
    \/ DfsLimitedLoopPrune
    \/ DfsLimitedLoopExecute
    \/ ScheduleWithLimitsReturn

NextLimited ==
    \/ DeadlineFires
    \/ LimitedProgress

---------------------------------------------------------------------------
(* Exhaustive DFS: dfsSchedule, schedule                                   *)

AtDfs(at) == algo = "schedule" /\ pc = "run" /\ stack # <<>> /\ Top.at = at

DfsUnchanged == UNCHANGED <<prob, node_order, algo, pc, expansionsLeft, deadline_passed, stats,
                            max_expansions, cur, beam, nextBeam, beam_i, expansions, beamWidth,
                            lookaheadDepth, branchFactor, first_result,
                            result>>

\* lines 230-233
DfsComplete ==
    /\ AtDfs("enter") /\ IsComplete(Top.state)
    /\ IF ShouldReplaceBest(Top.state)
       THEN best' = Top.state /\ has_best' = TRUE
       ELSE UNCHANGED <<best, has_best>>
    /\ stack' = Pop
    /\ CompareWithBest(Top.state)
    /\ DfsUnchanged

\* lines 235-237: after the garbage collection no node is ready
DfsNoReady ==
    /\ AtDfs("enter") /\ ~IsComplete(Top.state)
    /\ getReadyNodeNames(garbageCollectOutputs(Top.state)) = <<>>
    /\ stack' = Pop
    /\ UNCHANGED <<best, has_best>>
    /\ UNCHANGED cmp
    /\ DfsUnchanged

\* lines 235-239: garbage collection, ready set, pruning; the loop starts
DfsBranch ==
    /\ AtDfs("enter") /\ ~IsComplete(Top.state)
    /\ LET current == garbageCollectOutputs(Top.state)
           ready == getReadyNodeNames(current)
       IN  /\ ready # <<>>
           /\ stack' = SetTop([state |-> current,
                               ready |-> pruneReadyListDynamic(ready, current),
                               i |-> 1, at |-> "loop"])
    /\ UNCHANGED <<best, has_best>>
    /\ UNCHANGED cmp
    /\ DfsUnchanged

\* line 239: the loop is over
DfsLoopEnd ==
    /\ AtDfs("loop") /\ Top.i > Len(Top.ready)
    /\ stack' = Pop
    /\ UNCHANGED <<best, has_best>>
    /\ UNCHANGED cmp
    /\ DfsUnchanged

\* line 242: the candidate exceeds the budget
DfsLoopSkip ==
    /\ AtDfs("loop") /\ Top.i <= Len(Top.ready)
    /\ Predicted(Top.ready[Top.i], Top.state) > prob.total_memory
    /\ stack' = SetTop([Top EXCEPT !.i = @ + 1])
    /\ UNCHANGED <<best, has_best>>
    /\ UNCHANGED cmp
    /\ DfsUnchanged

\* the candidate executed without the budget test of line 242
DfsLoopExecute_NoBudgetTest ==
    /\ AtDfs("loop") /\ Top.i <= Len(Top.ready)
    /\ LET next == executeNode(Top.ready[Top.i], Top.state)
       IN  stack' = Append(SetTop([Top EXCEPT !.i = @ + 1]), Frame(next))
    /\ UNCHANGED <<best, has_best>>
    /\ UNCHANGED cmp
    /\ DfsUnchanged

\* lines 243-244
DfsLoopExecute ==
    /\ AtDfs("loop") /\ Top.i <= Len(Top.ready)
    /\ Predicted(Top.ready[Top.i], Top.state) <= prob.total_memory
    /\ LET next == executeNode(Top.ready[Top.i], Top.state)
       IN  stack' = Append(SetTop([Top EXCEPT !.i = @ + 1]), Frame(next))
    /\ UNCHANGED <<best, has_best>>
    /\ UNCHANGED cmp
    /\ DfsUnchanged

\* line 252: return best
ScheduleReturn ==
    /\ algo = "schedule" /\ pc = "run" /\ stack = <<>>
    /\ result' = best
    /\ pc' = "done"
    /\ UNCHANGED <<prob, node_order, algo, stack, best, has_best, expansionsLeft, deadline_passed,
                   stats, max_expansions, cur, beam, nextBeam, beam_i, expansions, beamWidth,
                   lookaheadDepth, branchFactor, first_result, cmp>>

NextSchedule ==
    \/ DfsComplete
    \/ DfsNoReady
    \/ DfsBranch
    \/ DfsLoopEnd
    \/ DfsLoopSkip
    \/ DfsLoopExecute
    \/ ScheduleReturn

---------------------------------------------------------------------------
(* greedySchedule and heuristicSchedule                                    *)

\* std::numeric_limits<int>::max()
INT_MAX == 2147483647

NoPick == [bestName |-> "", bestPredPeak |-> INT_MAX, bestTime |-> INT_MAX, pickedNegative |-> FALSE]

\* lines 318-326: the selection loop of greedySchedule from index k on
RECURSIVE GreedyLoop(_, _, _, _)
GreedyLoop(ready, k, state, acc) ==
    IF k > Len(ready) THEN acc
    ELSE LET nm == ready[k]
             predicted_peak == Predicted(nm, state)
             t == prob.nodes[nm].time_cost
         IN  IF predicted_peak > prob.total_memory THEN GreedyLoop(ready, k + 1, state, acc)
             ELSE IF predicted_peak < acc.bestPredPeak
                     \/ (predicted_peak = acc.bestPredPeak /\ t < acc.bestTime)
             THEN GreedyLoop(ready, k + 1, state,
                      [acc EXCEPT !.bestPredPeak = predicted_peak, !.bestTime = t, !.bestName = nm])
             ELSE GreedyLoop(ready, k + 1, state, acc)

\* the selection loop of heuristicSchedule without the preference for
\* candidates of impact <= 0
RECURSIVE HeuristicLoop_NoPreference(_, _, _, _)
HeuristicLoop_NoPreference(ready, k, state, acc) ==
    IF k > Len(ready) THEN acc
    ELSE LET nm == ready[k]
             predicted_peak == Predicted(nm, state)
             t == prob.nodes[nm].time_cost
         IN  IF predicted_peak > prob.total_memory
             THEN HeuristicLoop_NoPreference(ready, k + 1, state, acc)
             ELSE IF predicted_peak < acc.bestPredPeak
                     \/ (predicted_peak = acc.bestPredPeak /\ t < acc.bestTime)
             THEN HeuristicLoop_NoPreference(ready, k + 1, state,
                      [acc EXCEPT !.bestPredPeak = predicted_peak, !.bestTime = t, !.bestName = nm])
             ELSE HeuristicLoop_NoPreference(ready, k + 1, state, acc)

\* lines 340-354: the selection loop of heuristicSchedule from index k on
RECURSIVE HeuristicLoop(_, _, _, _)
HeuristicLoop(ready, k, state, acc) ==
    IF k > Len(ready) THEN acc
    ELSE LET nm == ready[k]
             node == prob.nodes[nm]
             predicted_peak == Predicted(nm, state)
             dynImpact == calculateDynamicImpact(nm, state)
             t == node.time_cost
         IN  IF predicted_peak > prob.total_memory THEN HeuristicLoop(ready, k + 1, state, acc)
             ELSE IF dynImpact <= 0
             THEN IF ~acc.pickedNegative \/ getPeak(node) < getPeak(prob.nodes[acc.bestName])
                  THEN HeuristicLoop(ready, k + 1, state,
                           [acc EXCEPT !.bestName = nm, !.pickedNegative = TRUE])
                  ELSE HeuristicLoop(ready, k + 1, state, acc)
             ELSE IF acc.pickedNegative THEN HeuristicLoop(ready, k + 1, state, acc)
             ELSE IF predicted_peak < acc.bestPredPeak
                     \/ (predicted_peak = acc.bestPredPeak /\ t < acc.bestTime)
             THEN HeuristicLoop(ready, k + 1, state,
                      [acc EXCEPT !.bestPredPeak = predicted_peak, !.bestTime = t, !.bestName = nm])
             ELSE HeuristicLoop(ready, k + 1, state, acc)

\* the node the running sweep executes next, "" when it stops
SweepPick(state) ==
    IF algo = "greedySchedule"
    THEN GreedyLoop(getReadyNodeNames(state), 1, state, NoPick).bestName
    ELSE HeuristicLoop(getReadyNodeNames(state), 1, state, NoPick).bestName

AtSweep == algo \in {"greedySchedule", "heuristicSchedule"} /\ pc = "run"

\* while (cur.computed.size() < prob.nodes.size()) with a ready node that fits
SweepContinues ==
    /\ Cardinality(cur.computed) < Cardinality(DOMAIN prob.nodes)
    /\ getReadyNodeNames(cur) # <<>>
    /\ SweepPick(cur) # ""

SweepUnchanged == UNCHANGED <<prob, node_order, algo, stack, best, has_best, expansionsLeft,
                              deadline_passed, stats, max_expansions, beam, nextBeam, beam_i,
                              expansions, beamWidth, lookaheadDepth, branchFactor, first_result, cmp>>

\* lines 314-328: one iteration of greedySchedule
GreedyStep ==
    /\ AtSweep /\ algo = "greedySchedule" /\ SweepContinues
    /\ cur' = executeNode(SweepPick(cur), cur)
    /\ UNCHANGED <<pc, result>>
    /\ SweepUnchanged

\* lines 314, 316, 327, 330: the loop of greedySchedule ends
GreedyReturn ==
    /\ AtSweep /\ algo = "greedySchedule" /\ ~SweepContinues
    /\ result' = cur
    /\ pc' = "done"
    /\ UNCHANGED cur
    /\ SweepUnchanged

\* lines 336-356: one iteration of heuristicSchedule
HeuristicStep ==
    /\ AtSweep /\ algo = "heuristicSchedule" /\ SweepContinues
    /\ cur' = executeNode(SweepPick(cur), cur)
    /\ UNCHANGED <<pc, result>>
    /\ SweepUnchanged

\* lines 336, 338, 355, 358: the loop of heuristicSchedule ends
HeuristicReturn ==
    /\ AtSweep /\ algo = "heuristicSchedule" /\ ~SweepContinues
    /\ result' = cur
    /\ pc' = "done"
    /\ UNCHANGED cur
    /\ SweepUnchanged

NextSweep ==
    \/ GreedyStep
    \/ GreedyReturn
    \/ HeuristicStep
    \/ HeuristicReturn

---------------------------------------------------------------------------
(* beamSearchSchedule                                                      *)

\* lexicographic a < b on triples
KeyLess(a, b) ==
    \/ a[1] < b[1]
    \/ (a[1] = b[1] /\ a[2] < b[2])
    \/ (a[1] = b[1] /\ a[2] = b[2] /\ a[3] < b[3])

\* The results std::sort may produce for the items [key, val] held at the
\* positions idx of items: std::sort is not stable, so items of equal key
\* come out in any order.
RECURSIVE SortOutcomes(_, _)
SortOutcomes(items, idx) ==
    IF idx = {} THEN {<<>>}
    ELSE UNION { { <<items[m].val>> \o rest : rest \in SortOutcomes(items, idx \ {m}) } :
                 m \in {k \in idx : \A o \in idx : ~KeyLess(items[o].key, items[k].key)} }

\* lines 381-391: the candidates that fit, sorted by (predicted peak, time)
BeamCandidates(state) ==
    LET ready == getReadyNodeNames(state)
        fits == SelectSeq(ready, LAMBDA nm : Predicted(nm, state) <= prob.total_memory)
        items == [k \in 1..Len(fits) |->
                     [key |-> <<0, Predicted(fits[k], state), prob.nodes[fits[k]].time_cost>>,
                      val |-> fits[k]]]
    IN  SortOutcomes(items, 1..Len(fits))

\* lines 400-407: nextBeam sorted by (validity, time, peak) and cut to beamWidth
BeamKeep(states) ==
    LET items == [k \in 1..Len(states) |->
                     [key |-> <<IF states[k].memory_peak <= prob.total_memory THEN 0 ELSE 1,
                                states[k].total_time, states[k].memory_peak>>,
                      val |-> states[k]]]
    IN  { SubSeq(sorted, 1, Min(Len(sorted), beamWidth)) : sorted \in SortOutcomes(items, 1..Len(states)) }

AtBeam == algo = "beamSearchSchedule" /\ pc = "run"

\* the while condition of line 371 is evaluated before the first entry of a round
AtBeamHead == beam_i = 1 /\ nextBeam = <<>>

BeamLoopCondition == beam # <<>> /\ expansions < max_expansions

AtBeamEntry == AtBeam /\ beam_i <= Len(beam) /\ (AtBeamHead => BeamLoopCondition)

BeamUnchanged == UNCHANGED <<prob, node_order, algo, stack, expansionsLeft, deadline_passed, stats,
                             max_expansions, cur, beamWidth, lookaheadDepth, branchFactor, first_result>>

\* return has_best ? best : (beam.empty() ? ScheduleState{} : beam.front())
BeamResult == IF has_best THEN best ELSE IF beam = <<>> THEN EmptyState ELSE beam[1]

\* lines 374-377: a complete entry of the beam is compared against the stored best
BeamEntryComplete ==
    /\ AtBeamEntry /\ IsComplete(beam[beam_i])
    /\ IF ShouldReplaceBest(beam[beam_i])
       THEN best' = beam[beam_i] /\ has_best' = TRUE
       ELSE UNCHANGED <<best, has_best>>
    /\ beam_i' = beam_i + 1
    /\ UNCHANGED <<pc, beam, nextBeam, expansions, result>>
    /\ CompareWithBest(beam[beam_i])
    /\ BeamUnchanged

\* lines 378-379: an entry without ready node is dropped
BeamEntryNoReady ==
    /\ AtBeamEntry /\ ~IsComplete(beam[beam_i])
    /\ getReadyNodeNames(beam[beam_i]) = <<>>
    /\ beam_i' = beam_i + 1
    /\ UNCHANGED <<pc, best, has_best, beam, nextBeam, expansions, result>>
    /\ UNCHANGED cmp
    /\ BeamUnchanged

\* lines 380-396: the best candidates of an entry are executed into nextBeam
BeamEntryExpand ==
    /\ AtBeamEntry /\ ~IsComplete(beam[beam_i])
    /\ getReadyNodeNames(beam[beam_i]) # <<>>
    /\ \E cands \in BeamCandidates(beam[beam_i]) :
          LET expandCount == Min(Len(cands), beamWidth)
              done == Min(expandCount, Max(0, max_expansions - expansions))
          IN  /\ nextBeam' = nextBeam \o [k \in 1..done |-> executeNode(cands[k], beam[beam_i])]
              /\ expansions' = expansions + done
    /\ beam_i' = beam_i + 1
    /\ UNCHANGED <<pc, best, has_best, beam, result>>
    /\ UNCHANGED cmp
    /\ BeamUnchanged

\* lines 398-408: the round ends with the best beamWidth states as the new beam
BeamRoundEnd ==
    /\ AtBeam /\ beam_i > Len(beam) /\ nextBeam # <<>>
    /\ beam' \in BeamKeep(nextBeam)
    /\ nextBeam' = <<>>
    /\ beam_i' = 1
    /\ UNCHANGED <<pc, best, has_best, expansions, result>>
    /\ UNCHANGED cmp
    /\ BeamUnchanged

\* line 398: if (nextBeam.empty()) break
BeamBreak ==
    /\ AtBeam /\ beam_i > Len(beam) /\ nextBeam = <<>>
    /\ result' = BeamResult
    /\ pc' = "done"
    /\ UNCHANGED <<best, has_best, beam, nextBeam, beam_i, expansions>>
    /\ UNCHANGED cmp
    /\ BeamUnchanged

\* line 371: the while condition fails
BeamReturn ==
    /\ AtBeam /\ AtBeamHead /\ ~BeamLoopCondition
    /\ result' = BeamResult
    /\ pc' = "done"
    /\ UNCHANGED <<best, has_best, beam, nextBeam, beam_i, expansions>>
    /\ UNCHANGED cmp
    /\ BeamUnchanged

NextBeam ==
    \/ BeamEntryComplete
    \/ BeamEntryNoReady
    \/ BeamEntryExpand
    \/ BeamRoundEnd
    \/ BeamBreak
    \/ BeamReturn

---------------------------------------------------------------------------
(* dpGreedySchedule                                                        *)

\* line 415: if (lookaheadDepth == 0) lookaheadDepth = 2
DefaultLookaheadDepth == 2

\* line 415: if (branchFactor == 0) branchFactor = 8
DefaultBranchFactor == 8

EffectiveLookaheadDepth == IF lookaheadDepth = 0 THEN DefaultLookaheadDepth ELSE lookaheadDepth

EffectiveBranchFactor == IF branchFactor = 0 THEN DefaultBranchFactor ELSE branchFactor

\* lines 423-432: the ready nodes sorted by (predicted peak, time)
DpCandidates(state) ==
    LET ready == getReadyNodeNames(state)
        items == [k \in 1..Len(ready) |->
                     [key |-> <<0, Predicted(ready[k], state), prob.nodes[ready[k]].time_cost>>,
                      val |-> ready[k]]]
    IN  SortOutcomes(items, 1..Len(ready))

NoLookaheadPick == [pick |-> "", bestP |-> INT_MAX, bestT |-> INT_MAX]

\* lines 441-447: the pick inside the lookahead from index k on; no budget test
RECURSIVE LookaheadLoop(_, _, _, _)
LookaheadLoop(r, k, tmp, acc) ==
    IF k > Len(r) THEN acc
    ELSE LET nm == r[k]
             p == Predicted(nm, tmp)
             t == prob.nodes[nm].time_cost
         IN  IF p < acc.bestP \/ (p = acc.bestP /\ t < acc.bestT)
             THEN LookaheadLoop(r, k + 1, tmp, [pick |-> nm, bestP |-> p, bestT |-> t])
             ELSE LookaheadLoop(r, k + 1, tmp, acc)

\* lines 436-450: the while loop of evalPath, tmp after depth executions
RECURSIVE EvalPathLoop(_, _)
EvalPathLoop(tmp, depth) ==
    IF depth < EffectiveLookaheadDepth /\ Cardinality(tmp.computed) < Cardinality(DOMAIN prob.nodes)
    THEN LET r == getReadyNodeNames(tmp)
             pick == LookaheadLoop(r, 1, tmp, NoLookaheadPick).pick
         IN  IF r = <<>> \/ pick = "" THEN tmp
             ELSE EvalPathLoop(executeNode(pick, tmp), depth + 1)
    ELSE tmp

\* lines 434-451: (memory_peak, total_time) at the end of the lookahead
evalPath(start, first) ==
    LET tmp == EvalPathLoop(executeNode(first, start), 1)
    IN  <<tmp.memory_peak, tmp.total_time>>

NoDpPick == [bestName |-> "", bestPeak |-> INT_MAX, bestTime |-> INT_MAX]

\* lines 452-457: the selection among the first explore candidates from index i on
RECURSIVE DpSelectLoop(_, _, _, _, _)
DpSelectLoop(cands, i, explore, state, acc) ==
    IF i > explore THEN acc
    ELSE LET pt == evalPath(state, cands[i])
             p == pt[1]
             t == pt[2]
         IN  IF p <= prob.total_memory /\ (p < acc.bestPeak \/ (p = acc.bestPeak /\ t < acc.bestTime))
             THEN DpSelectLoop(cands, i + 1, explore, state,
                      [bestName |-> cands[i], bestPeak |-> p, bestTime |-> t])
             ELSE DpSelectLoop(cands, i + 1, explore, state, acc)

\* lines 433, 452-461: the node executed next; when no explored path fits
\* the budget the first candidate is taken
DpPick(state, cands) ==
    LET explore == Min(Len(cands), EffectiveBranchFactor)
        bestName == DpSelectLoop(cands, 1, explore, state, NoDpPick).bestName
    IN  IF bestName = "" THEN cands[1] ELSE bestName

AtDpGreedy == algo = "dpGreedySchedule" /\ pc = "run"

\* while (cur.computed.size() < prob.nodes.size()) with a ready node
DpGreedyContinues ==
    /\ Cardinality(cur.computed) < Cardinality(DOMAIN prob.nodes)
    /\ getReadyNodeNames(cur) # <<>>

\* lines 417-462: one iteration of dpGreedySchedule
DpGreedyStep ==
    /\ AtDpGreedy /\ DpGreedyContinues
    /\ \E cands \in DpCandidates(cur) : cur' = executeNode(DpPick(cur, cands), cur)
    /\ UNCHANGED <<pc, result>>
    /\ SweepUnchanged

\* lines 417, 419, 464: the loop of dpGreedySchedule ends
DpGreedyReturn ==
    /\ AtDpGreedy /\ ~DpGreedyContinues
    /\ result' = cur
    /\ pc' = "done"
    /\ UNCHANGED cur
    /\ SweepUnchanged

NextDpGreedy ==
    \/ DpGreedyStep
    \/ DpGreedyReturn

---------------------------------------------------------------------------
(* Direct calls of isBetterSchedule on arbitrary pairs of schedules        *)

\* the two fields of a ScheduleState that isBetterSchedule reads
CmpStates == [total_time : 0..MaxCmp, memory_peak : 0..MaxCmp]

InitCmp ==
    /\ prob = buildProblem(0, EmptyMap)
    /\ node_order = <<>>
    /\ algo = "isBetterSchedule"
    /\ pc = "run"
    /\ max_expansions = 0
    /\ beamWidth = 0
    /\ lookaheadDepth = 0
    /\ branchFactor = 0
    /\ first_result = NoResult
    /\ stack = <<>>
    /\ best = EmptyState
    /\ has_best = FALSE
    /\ expansionsLeft = 0
    /\ deadline_passed = FALSE
    /\ stats = [expansions |-> 0, prunedByMemory |-> 0, deadEnds |-> 0]
    /\ cur = EmptyState
    /\ beam = <<>>
    /\ nextBeam = <<>>
    /\ beam_i = 1
    /\ expansions = 0
    /\ result = EmptyState
    /\ cmp \in [called : {FALSE}, state1 : CmpStates, state2 : CmpStates, total_memory : 0..MaxCmp]

CompareSchedules ==
    /\ algo = "isBetterSchedule" /\ pc = "run"
    /\ cmp' = Call(cmp.state1, cmp.state2, cmp.total_memory)
    /\ pc' = "done"
    /\ UNCHANGED <<prob, node_order, algo, stack, best, has_best, expansionsLeft, deadline_passed,
                   stats, max_expansions, cur, beam, nextBeam, beam_i, expansions, beamWidth,
                   lookaheadDepth, branchFactor, first_result, result>>

NextCmp == CompareSchedules

SpecCmp == InitCmp /\ [][NextCmp]_vars

---------------------------------------------------------------------------
(* Specifications                                                          *)

Next ==
    \/ NextLimited
    \/ NextSchedule
    \/ NextSweep
    \/ NextBeam
    \/ NextDpGreedy

Spec == Init /\ [][Next]_vars

\* the bounded DFS alone
InitLimited == Init /\ algo = "scheduleWithLimits"

SpecLimited == InitLimited /\ [][NextLimited]_vars

\* the concrete graphs and the graphs of the family with a large, cheap
\* producer A and a large B: these hold the spill / recompute cycles
TightProblems ==
    ScenarioProblems \cup
        {p \in FamilyProblems : /\ \A o \in OutputSizes : p.nodes["A"].output_mem >= o
                                /\ \A o \in OutputSizes : p.nodes["B"].output_mem >= o
                                /\ \A t \in TimeCosts : p.nodes["A"].time_cost <= t}

InitTight == InitLimited /\ prob \in TightProblems

\* the program keeps running: its own steps are taken as long as one is
\* possible; nothing forces the deadline to pass
FairSpecLimited == InitTight /\ [][NextLimited]_vars /\ WF_vars(LimitedProgress)

\* a second call of scheduleWithLimits on the same Problem with the same
\* maxExpansions and timeLimitSeconds, after the first call returned
SecondRun ==
    /\ algo = "scheduleWithLimits" /\ pc = "done" /\ ~first_result.returned
    /\ first_result' = [returned |-> TRUE, state |-> result]
    /\ pc' = "run"
    /\ stack' = <<Frame(EmptyState)>>
    /\ best' = EmptyState
    /\ has_best' = FALSE
    /\ expansionsLeft' = max_expansions
    /\ deadline_passed' = FALSE
    /\ stats' = [expansions |-> 0, prunedByMemory |-> 0, deadEnds |-> 0]
    /\ result' = EmptyState
    /\ cmp' = NoCmp
    /\ UNCHANGED <<prob, node_order, algo, max_expansions, cur, beam, nextBeam, beam_i, expansions,
                   beamWidth, lookaheadDepth, branchFactor>>

NextTwoRuns ==
    \/ NextLimited
    \/ SecondRun

\* the bounded DFS called twice on the same Problem object
SpecTwoRuns == InitTight /\ [][NextTwoRuns]_vars

---------------------------------------------------------------------------
(* Properties                                                              *)

\* every ScheduleState the running scheduler holds
AllStates ==
    {stack[k].state : k \in 1..Len(stack)} \cup Range(beam) \cup Range(nextBeam)
        \cup {cur, best, result}

Accounted(state) == state.current_memory = SumOver(state.output_memory, Resident(state))

\* C1: in every state held by any scheduler, after every execution, garbage
\* collection and spill, current_memory equals the sum of the sizes in
\* output_memory.
C1_AccountingConsistency == \A state \in AllStates : Accounted(state)

\* C1 with the bounded DFS left out: the schedulers that never spill keep
\* the accounts
C1_AccountingWithoutSpill == algo # "scheduleWithLimits" => C1_AccountingConsistency

\* position i of the schedule ran with every input executed before and resident
InputsResidentAt(state, i) ==
    \A inName \in prob.nodes[state.execution_order[i]].inputs :
        /\ \E j \in 1..(i - 1) : state.execution_order[j] = inName
        /\ inName \in state.resident_log[i]

\* C2: at every position of every schedule, every input of the executed
\* node was executed at an earlier position and was resident when the node ran.
C2_TopologicalResidency ==
    \A state \in AllStates : \A i \in 1..Len(state.execution_order) : InputsResidentAt(state, i)

\* a returned complete schedule in which a node with inputs ran after a recomputation
C2_Witness ==
    /\ pc = "done" /\ IsComplete(result)
    /\ \E i, j \in 1..Len(result.execution_order) :
          /\ i < j /\ result.recompute_flags[i]
          /\ result.execution_order[i] \in prob.nodes[result.execution_order[j]].inputs

\* C3: every state reached by schedule, scheduleWithLimits, greedySchedule,
\* heuristicSchedule and beamSearchSchedule has memory_peak <= total_memory.
C3_PeakWithinBudget ==
    algo \in {"schedule", "scheduleWithLimits", "greedySchedule", "heuristicSchedule", "beamSearchSchedule"}
        => \A state \in AllStates : state.memory_peak <= prob.total_memory

\* a returned complete schedule whose peak uses the whole budget
C3_Witness ==
    /\ pc = "done" /\ IsComplete(result) /\ result.execution_order # <<>>
    /\ result.memory_peak = prob.total_memory

\* executeNode folded over the first k names of order, from the empty state
RECURSIVE Replay(_, _)
Replay(order, k) ==
    IF k = 0 THEN EmptyState ELSE executeNode(order[k], Replay(order, k - 1))

Replayed(state) == Replay(state.execution_order, Len(state.execution_order))

\* C4: replaying executeNode over the execution_order of a returned
\* schedule yields the returned memory_peak, total_time and output_memory,
\* and the replayed peak does not exceed total_memory.
C4_ReplaySoundness ==
    pc = "done" =>
        /\ Replayed(result).memory_peak = result.memory_peak
        /\ Replayed(result).total_time = result.total_time
        /\ Replayed(result).output_memory = result.output_memory
        /\ Replayed(result).memory_peak <= prob.total_memory

\* C5: recompute_flags is as long as execution_order, and the flag at i is
\* true exactly when the name at i occurs at an earlier index.
C5_RecomputeFlagLaw ==
    \A state \in AllStates :
        /\ Len(state.recompute_flags) = Len(state.execution_order)
        /\ \A i \in 1..Len(state.execution_order) :
              state.recompute_flags[i] =
                  (\E j \in 1..(i - 1) : state.execution_order[j] = state.execution_order[i])

\* a returned schedule with a recomputation
C5_Witness ==
    /\ pc = "done"
    /\ \E i \in 1..Len(result.recompute_flags) : result.recompute_flags[i]

\* C6: a name is in computed iff it occurs in execution_order; a spill and a
\* garbage collection of a held state change neither.
C6_ComputedIffExecuted ==
    \A state \in AllStates :
        /\ state.computed = Range(state.execution_order)
        /\ LET collected == garbageCollectOutputs(state)
           IN  /\ collected.computed = state.computed
               /\ collected.execution_order = state.execution_order
        /\ \A r \in SpillOutcomes(state) :
              r.state.computed = state.computed /\ r.state.execution_order = state.execution_order

\* a state of the bounded DFS that was spilled after some executions
C6_Witness ==
    /\ algo = "scheduleWithLimits" /\ stack # <<>>
    /\ Top.state.spill_run > 0 /\ Top.state.execution_order # <<>>

Feasible(state, total_memory) == state.memory_peak <= total_memory

LexSmaller(state1, state2) ==
    \/ state1.total_time < state2.total_time
    \/ (state1.total_time = state2.total_time /\ state1.memory_peak < state2.memory_peak)

\* C7: a feasible schedule beats an infeasible one, never the reverse; two
\* feasible schedules compare by (total_time, memory_peak) lexicographically;
\* the predicate is irreflexive and asymmetric.
C7_AcceptanceOnFeasible ==
    cmp.called =>
        LET s1 == cmp.state1
            s2 == cmp.state2
            m == cmp.total_memory
        IN  /\ (Feasible(s1, m) /\ ~Feasible(s2, m)) => cmp.result
            /\ (Feasible(s2, m) /\ ~Feasible(s1, m)) => ~cmp.result
            /\ (Feasible(s1, m) /\ Feasible(s2, m)) => (cmp.result = LexSmaller(s1, s2))
            /\ ~isBetterSchedule(s1, s1, m)
            /\ ~(cmp.result /\ isBetterSchedule(s2, s1, m))

\* two feasible schedules of equal time, the first of smaller peak, compared
C7_Witness ==
    /\ cmp.called /\ cmp.result
    /\ Feasible(cmp.state1, cmp.total_memory) /\ Feasible(cmp.state2, cmp.total_memory)
    /\ cmp.state1.total_time = cmp.state2.total_time
    /\ cmp.state1.memory_peak < cmp.state2.memory_peak

\* C8: when both schedules are infeasible, the one of smaller total_time wins.
C8_AcceptanceOnInfeasible ==
    (/\ cmp.called
     /\ ~Feasible(cmp.state1, cmp.total_memory) /\ ~Feasible(cmp.state2, cmp.total_memory)
     /\ cmp.state1.total_time < cmp.state2.total_time)
        => cmp.result

\* C9: whenever a stored best is replaced, the new best is strictly better
\* than the old one under the acceptance predicate.
C9_MonotoneImprovement ==
    [][(has_best /\ best' # best) => isBetterSchedule(best', best, prob.total_memory)]_vars

\* the stored best has just been replaced by a schedule compared against it
C9_Witness ==
    /\ has_best /\ cmp.called /\ cmp.result
    /\ best = cmp.state1 /\ best # cmp.state2

\* the spills since the last execution removed one resident output each
SpillsBounded(state) ==
    /\ state.spill_run + Cardinality(Resident(state)) = state.spill_base
    /\ state.spill_run <= state.spill_base

\* C10: scheduleWithLimits eventually returns, also when the deadline never
\* fires, and the spills made in a row without an execution in between are
\* bounded by the number of outputs resident when the row began.
C10_Termination ==
    /\ <>(pc = "done")
    /\ [](\A k \in 1..Len(stack) : SpillsBounded(stack[k].state))

\* the bounded DFS returned without the deadline, after more executions than
\* the problem has nodes, without a complete schedule, a dead end or a
\* memory prune: spill and recompute cycles used up the expansions
C10_Witness ==
    /\ algo = "scheduleWithLimits" /\ pc = "done" /\ ~deadline_passed
    /\ ~has_best /\ expansionsLeft = 0
    /\ stats.expansions > Cardinality(DOMAIN prob.nodes)
    /\ stats.deadEnds = 0 /\ stats.prunedByMemory = 0

\* C11: a second run of scheduleWithLimits on the same Problem with the same
\* max_expansions and time limit returns the ScheduleState that the first
\* run returned, whenever the deadline fires in either run.
C11_Determinism ==
    (algo = "scheduleWithLimits" /\ pc = "done" /\ first_result.returned)
        => Core(result) = Core(first_result.state)

\* every input of every node names a node of the Problem
DefinedInputs(p) == \A n \in DOMAIN p.nodes : p.nodes[n].inputs \subseteq DOMAIN p.nodes

\* the nodes can be listed with every input before its consumer
Acyclic(p) ==
    \E ord \in Perms(DOMAIN p.nodes) :
        \A i, j \in 1..Len(ord) : ord[i] \in p.nodes[ord[j]].inputs => i < j

WellFormed(p) == DefinedInputs(p) /\ Acyclic(p)

\* C12: no scheduler returns a result for a Problem built from node specs
\* with a cycle or with an input that names no node: building such a Problem
\* fails.
C12_MalformedRejected == pc = "done" => WellFormed(prob)

\* some node of the Problem never appears in execution_order
Incomplete(state) == \E n \in DOMAIN prob.nodes : n \notin Range(state.execution_order)

FlagAlgos == {"scheduleWithLimits", "greedySchedule", "heuristicSchedule", "beamSearchSchedule"}

\* C13: a state returned by scheduleWithLimits, greedySchedule,
\* heuristicSchedule or beamSearchSchedule is incomplete iff its
\* execution_order is shorter than the number of nodes of the Problem.
C13_IncompletenessFlag ==
    (pc = "done" /\ algo \in FlagAlgos) =>
        (Incomplete(result) <=> Len(result.execution_order) < Cardinality(DOMAIN prob.nodes))

\* a returned schedule that ran some nodes and misses others
C13_Witness ==
    /\ pc = "done" /\ algo \in FlagAlgos
    /\ Incomplete(result) /\ result.execution_order # <<>>

\* the largest current_memory + run_mem over the first k executions of state
RECURSIVE RunMemPeak(_, _)
RunMemPeak(state, k) ==
    IF k = 0 THEN 0
    ELSE Max(RunMemPeak(state, k - 1),
             state.memory_log[k] + prob.nodes[state.execution_order[k]].run_mem)

\* the largest current_memory + max(run_mem, output_mem) over the first k executions of state
RECURSIVE NodePeakPeak(_, _)
NodePeakPeak(state, k) ==
    IF k = 0 THEN 0
    ELSE LET node == prob.nodes[state.execution_order[k]]
         IN  Max(NodePeakPeak(state, k - 1),
                 state.memory_log[k] + Max(node.run_mem, node.output_mem))

\* C14: memory_peak is the maximum over the executed steps of current_memory
\* just before the step plus run_mem of the node executed.
C14_PeakDefinition ==
    \A state \in AllStates : state.memory_peak = RunMemPeak(state, Len(state.execution_order))

\* C14, amended: memory_peak is the maximum over the executed steps of
\* current_memory just before the step plus the peak of the node executed,
\* max(run_mem, output_mem).
C14_PeakDefinitionAmended ==
    \A state \in AllStates : state.memory_peak = NodePeakPeak(state, Len(state.execution_order))

\* a returned schedule of several steps, current_memory falling between two
\* of them, whose peak is above every current_memory + run_mem
C14_Witness ==
    /\ pc = "done" /\ Len(result.execution_order) >= 3
    /\ \E k \in 2..Len(result.execution_order) :
          result.memory_log[k] < result.memory_log[k - 1]
    /\ result.memory_peak > RunMemPeak(result, Len(result.execution_order))

\* the scheduler ran to its end: the deadline did not pass, the expansion
\* limit of the bounded DFS leaves room for one execution per node and the
\* final test, and the beam search did not stop on its expansion limit
RanToEnd ==
    /\ pc = "done"
    /\ algo = "scheduleWithLimits" => (~deadline_passed /\ max_expansions > Cardinality(DOMAIN prob.nodes))
    /\ algo = "beamSearchSchedule" => expansions < max_expansions

\* ord lists the nodes of p as a chain: the first has no input, every other
\* one has the node before it as its only input
IsChainOrder(p, ord) ==
    /\ p.nodes[ord[1]].inputs = {}
    /\ \A i \in 2..Len(ord) : p.nodes[ord[i]].inputs = {ord[i - 1]}

IsLinearChain(p) == \E ord \in Perms(DOMAIN p.nodes) : IsChainOrder(p, ord)

ChainOrder(p) == CHOOSE ord \in Perms(DOMAIN p.nodes) : IsChainOrder(p, ord)

\* the budget admits the chain: run in chain order it stays within total_memory
AdmitsChain(p) == Replay(ChainOrder(p), Len(ChainOrder(p))).memory_peak <= p.total_memory

NoRecomputation(state) == \A i \in 1..Len(state.recompute_flags) : ~state.recompute_flags[i]

\* C15: on the linear chain A -> B -> C (run 10 / output 20 / time 1, budget
\* 100) the scheduler returns A,B,C with all flags false, total_time 3 and
\* memory_peak 30; on every linear chain that the budget admits the order is
\* the chain order without recomputation.
C15_LinearChain ==
    (RanToEnd /\ IsLinearChain(prob) /\ AdmitsChain(prob)) =>
        /\ result.execution_order = ChainOrder(prob)
        /\ NoRecomputation(result)
        /\ prob = LinearChain => (result.total_time = 3 /\ result.memory_peak = 30)

\* C15, amended: as C15 with memory_peak 40 on the chain of scenario 1 (B
\* runs with A's 20 resident and its own peak max(10, 20) = 20 on top).
C15_LinearChainAmended ==
    (RanToEnd /\ IsLinearChain(prob) /\ AdmitsChain(prob)) =>
        /\ result.execution_order = ChainOrder(prob)
        /\ NoRecomputation(result)
        /\ prob = LinearChain => (result.total_time = 3 /\ result.memory_peak = 40)

\* the bounded DFS returned A,B,C on the chain of scenario 1
C15_Witness ==
    /\ RanToEnd /\ algo = "scheduleWithLimits" /\ prob = LinearChain
    /\ result.execution_order = <<"A", "B", "C">>

\* name was resident when each of the steps from..to of state began
ResidentDuring(name, state, from, to) == \A k \in from..to : name \in state.resident_log[k]

\* C16: on the diamond A -> {B, C} -> D (A output 40, B and C output 20, D
\* output 10, run 10, time 1, budget 100) the scheduler returns A, B, C, D
\* with total_time 4 and memory_peak 70, and A stays in output_memory until
\* both B and C have executed.
C16_Diamond ==
    (RanToEnd /\ prob = Diamond) =>
        /\ result.execution_order = <<"A", "B", "C", "D">>
        /\ result.total_time = 4
        /\ ResidentDuring("A", result, 2, 3) /\ "A" \notin result.resident_log[4]
        /\ result.memory_peak = 70

\* a call of either DFS that iterates over the candidates left after A alone ran
AfterA(f) == f.at = "loop" /\ f.state.execution_order = <<"A">>

\* prob.nodes enumerates a before b
EnumeratedBefore(a, b) ==
    \E i, j \in 1..Len(node_order) : i < j /\ node_order[i] = a /\ node_order[j] = b

\* the bounded DFS returned without being cut short of the schedule that
\* starts with first: neither limit was hit, or the deadline did not pass,
\* first is enumerated before other and the expansion limit exceeds the node
\* count
SearchedThrough(first, other) ==
    /\ pc = "done" /\ algo = "scheduleWithLimits" /\ ~deadline_passed
    /\ \/ expansionsLeft > 0
       \/ (EnumeratedBefore(first, other) /\ max_expansions > Cardinality(DOMAIN prob.nodes))

\* C17: on scenario 3 (budget 50; A: output 40; B: output 5; C: input A,
\* output 5; run 1, time 1) the pruned frontier after A is the singleton {C}
\* because C's sequential peak does not exceed the current memory_peak, and
\* the returned schedule is A, C, B with memory_peak 41.
C17_MemoryFreeingPrune ==
    (prob = MemoryFreeingPrune /\ algo \in {"schedule", "scheduleWithLimits"}) =>
        /\ \A k \in 1..Len(stack) :
              AfterA(stack[k]) =>
                  /\ stack[k].ready = <<"C">>
                  /\ Predicted("C", stack[k].state) <= stack[k].state.memory_peak
        /\ SearchedThrough("A", "B") =>
              (result.execution_order = <<"A", "C", "B">> /\ result.memory_peak = 41)

\* C17, amended: the pruned frontier after A is the singleton {C}; C's
\* sequential peak 45 exceeds the current memory_peak 40, and B is dropped
\* because its peak is not below C's; a bounded DFS that is not cut short
\* returns A, C, B with memory_peak 45.
C17_MemoryFreeingPruneAmended ==
    (prob = MemoryFreeingPrune /\ algo \in {"schedule", "scheduleWithLimits"}) =>
        /\ \A k \in 1..Len(stack) :
              AfterA(stack[k]) =>
                  /\ stack[k].ready = <<"C">>
                  /\ stack[k].state.memory_peak = 40
                  /\ Predicted("C", stack[k].state) = 45
                  /\ ~(Max(prob.nodes["B"].run_mem, prob.nodes["B"].output_mem)
                          < Max(prob.nodes["C"].run_mem, prob.nodes["C"].output_mem))
        /\ SearchedThrough("A", "B") =>
              (result.execution_order = <<"A", "C", "B">> /\ result.memory_peak = 45)

\* the bounded DFS has recorded A, C, B while the call that pruned the
\* frontier after A to {C} is still open
C17_Witness ==
    /\ prob = MemoryFreeingPrune /\ algo = "scheduleWithLimits"
    /\ has_best /\ best.execution_order = <<"A", "C", "B">>
    /\ \E k \in 1..Len(stack) : AfterA(stack[k]) /\ stack[k].ready = <<"C">>

\* every node of the Problem occurs exactly once in execution_order
EachNodeOnce(state) ==
    /\ ~Incomplete(state)
    /\ Len(state.execution_order) = Cardinality(DOMAIN prob.nodes)

\* the exhaustive DFS returned, or the bounded DFS returned without being cut
\* short of the schedule that starts with A
SearchedTwoProducers == pc = "done" /\ (algo = "schedule" \/ SearchedThrough("A", "C"))

\* C18: on scenario 4 (budget 30; A: output 20, time 5; B: input A, output 5;
\* C: output 20, time 5; D: inputs B, C, output 1; run 1) the returned
\* schedule is complete, has no recomputation and has memory_peak 25.
C18_TwoProducers ==
    (prob = TwoProducers /\ SearchedTwoProducers) =>
        /\ EachNodeOnce(result) /\ NoRecomputation(result)
        /\ result.memory_peak = 25

\* C18, amended: as C18 with memory_peak 26 (D runs with B's 5 and C's 20
\* resident and its own peak 1 on top).
C18_TwoProducersAmended ==
    (prob = TwoProducers /\ SearchedTwoProducers) =>
        /\ EachNodeOnce(result) /\ NoRecomputation(result)
        /\ result.memory_peak = 26

\* the bounded DFS returned A, B, C, D on scenario 4
C18_Witness ==
    /\ prob = TwoProducers /\ SearchedThrough("A", "C")
    /\ result.execution_order = <<"A", "B", "C", "D">>

\* the number of positions of execution_order that hold name
Occurrences(name, state) ==
    Cardinality({i \in 1..Len(state.execution_order) : state.execution_order[i] = name})

\* the sum of time_cost over the positions 1..k of execution_order
RECURSIVE TimeOfOrder(_, _)
TimeOfOrder(state, k) ==
    IF k = 0 THEN 0
    ELSE TimeOfOrder(state, k - 1) + prob.nodes[state.execution_order[k]].time_cost

\* C19: on scenario 5 (budget 25; A: output 20, time 5; B and C: input A,
\* output 5, time 1; run 1) the bounded DFS runs A, B, spills A, recomputes A
\* and runs C: the returned execution_order holds A twice, the second time
\* with recompute flag true, and total_time counts both executions of A.
C19_SpillRecompute ==
    (/\ prob = SharedProducer /\ algo = "scheduleWithLimits" /\ pc = "done"
     /\ ~deadline_passed /\ max_expansions > 4)
        => /\ Occurrences("A", result) = 2
           /\ \E i \in 1..Len(result.execution_order) :
                 result.execution_order[i] = "A" /\ result.recompute_flags[i]
           /\ result.total_time = TimeOfOrder(result, Len(result.execution_order))
           /\ result.total_time = 12

\* every node that is ready in the empty state has its sequential peak above the budget
NothingFits ==
    LET ready == getReadyNodeNames(EmptyState)
    IN  \A k \in 1..Len(ready) : Predicted(ready[k], EmptyState) > prob.total_memory

LadderAlgos == {"scheduleWithLimits", "heuristicSchedule", "dpGreedySchedule", "beamSearchSchedule",
                "greedySchedule"}

\* C20: on scenario 6 (budget 5, one node A with run 1 / output 10), and on
\* any Problem where no node runnable from the empty state fits the budget,
\* the bounded DFS returns an empty execution_order and heuristicSchedule,
\* dpGreedySchedule, beamSearchSchedule and greedySchedule return no complete
\* schedule either.
C20_InfeasibleProblem ==
    (pc = "done" /\ algo \in LadderAlgos /\ NothingFits) =>
        /\ algo = "scheduleWithLimits" => result.execution_order = <<>>
        /\ Incomplete(result)

\* the sum of the output sizes of the nodes in S
RECURSIVE SizeOf(_)
SizeOf(S) ==
    IF S = {} THEN 0
    ELSE LET x == CHOOSE y \in S : TRUE IN prob.nodes[x].output_mem + SizeOf(S \ {x})

\* step k of state ran with the outputs then held plus the node's peak within the budget
HeldWithinBudget(state, k) ==
    LET node == prob.nodes[state.execution_order[k]]
    IN  SizeOf(state.resident_log[k]) + Max(node.run_mem, node.output_mem) <= prob.total_memory

\* C21: at every execution of the bounded DFS, the sizes of the outputs held
\* in output_memory just before the step plus the peak of the executed node
\* are within total_memory.
C21_TrueResidency ==
    algo = "scheduleWithLimits" =>
        \A state \in AllStates : \A k \in 1..Len(state.execution_order) : HeldWithinBudget(state, k)

\* the call on top of the stack was entered on a complete state before the deadline
CompleteEntered == AtLimited("enter") /\ IsComplete(Top.state) /\ ~deadline_passed

\* C22: a complete state that the bounded DFS reaches by an execution made
\* while an expansion remained, the deadline not passed, is compared against
\* the stored best: the step that leaves the call stores a complete best.
C22_CompleteRecorded ==
    [][(CompleteEntered /\ ~deadline_passed') => (has_best' /\ IsComplete(best'))]_vars

\* the outputs resident in s, absent from t, that a node uncomputed in t consumes
Lost(s, t) == {u \in Resident(s) \ Resident(t) : \E c \in Consumers(u) : c \notin t.computed}

\* the state on top of the stack after the step comes from the one on top before
\* it: an execution pushed a frame, or the frame on top was rewritten
StackForward == stack # <<>> /\ stack' # <<>> /\ Len(stack') >= Len(stack)

\* C23: an execution and a garbage collection remove an output only when all
\* its consumers are computed (the executing node counted); a step that removes
\* an output with an uncomputed consumer is a spill.
C23_ConsumersBeforeEviction ==
    [][/\ (StackForward /\ Lost(Top.state, Top'.state) # {})
            => (algo = "scheduleWithLimits" /\ Top'.state.spill_run = Top.state.spill_run + 1)
       /\ Lost(cur, cur') = {}]_vars

\* schedule() holds a state from which an execution removed an input and the
\* garbage collection an output, all their consumers computed
C23_Witness ==
    /\ algo = "schedule"
    /\ \E f \in Range(stack) :
          /\ f.at = "loop"
          /\ \E k \in 1..Len(f.state.execution_order) :
                \E u \in prob.nodes[f.state.execution_order[k]].inputs :
                    u \in f.state.resident_log[k] /\ u \notin Resident(f.state)
          /\ \E u \in f.state.computed : Consumers(u) = {} /\ u \notin Resident(f.state)

---------------------------------------------------------------------------
(* dfsSchedule as a function of the state it is called on: acc holds best  *)
(* and has_best, pruning tells whether line 238 is executed                *)

RECURSIVE dfsSchedule(_, _, _)
RECURSIVE dfsScheduleLoop(_, _, _, _, _)

\* lines 239-245: the loop over the candidates from index k on
dfsScheduleLoop(current, ready, k, acc, pruning) ==
    IF k > Len(ready) THEN acc
    ELSE IF Predicted(ready[k], current) > prob.total_memory
    THEN dfsScheduleLoop(current, ready, k + 1, acc, pruning)
    ELSE dfsScheduleLoop(current, ready, k + 1,
             dfsSchedule(executeNode(ready[k], current), acc, pruning), pruning)

\* lines 229-238
dfsSchedule(entered, acc, pruning) ==
    IF IsComplete(entered)
    THEN IF ~acc.has_best \/ isBetterSchedule(entered, acc.best, prob.total_memory)
         THEN [best |-> entered, has_best |-> TRUE]
         ELSE acc
    ELSE LET current == garbageCollectOutputs(entered)
             ready == getReadyNodeNames(current)
         IN  IF ready = <<>> THEN acc
             ELSE dfsScheduleLoop(current,
                      IF pruning THEN pruneReadyListDynamic(ready, current) ELSE ready,
                      1, acc, pruning)

\* lines 248-253: what schedule() returns, with or without the pruning of line 238
scheduleResult(pruning) ==
    dfsSchedule(EmptyState, [best |-> EmptyState, has_best |-> FALSE], pruning).best

\* C24: on an acyclic problem, schedule() returns a complete schedule exactly
\* when the same search without the pruning of the candidate list returns
\* one, and the two results have the same total_time and memory_peak.
C24_PruningPreservesOptimum ==
    (algo = "schedule" /\ pc = "done" /\ Acyclic(prob)) =>
        LET unpruned == scheduleResult(FALSE)
        IN  /\ IsComplete(result) <=> IsComplete(unpruned)
            /\ result.total_time = unpruned.total_time
            /\ result.memory_peak = unpruned.memory_peak

\* schedule() has returned a complete schedule on an acyclic problem, and the
\* search without pruning returns another schedule
C24_Witness ==
    /\ algo = "schedule" /\ pc = "done" /\ Acyclic(prob)
    /\ IsComplete(result)
    /\ Core(scheduleResult(FALSE)) # Core(result)

\* the candidate list a frame in its loop was pruned from
PrunedFrom(f) ==
    IF algo = "schedule" THEN getReadyNodeNames(f.state) ELSE LimitedCandidates(f.state)

\* the indices of the candidates of dynamic impact <= 0
NonPositive(input, state) ==
    {i \in 1..Len(input) : calculateDynamicImpact(input[i], state) <= 0}

\* i is a candidate of impact <= 0 of least peak
IsMinPeak(i, input, state) ==
    /\ i \in NonPositive(input, state)
    /\ \A j \in NonPositive(input, state) :
          getPeak(prob.nodes[input[i]]) <= getPeak(prob.nodes[input[j]])

\* out lists some of the names of input, in the order of input
SubList(out, input) == out = SelectSeq(input, LAMBDA nm : nm \in Range(out))

\* out is what the pruning rule returns for input in state
PruneRule(input, state, out) ==
    /\ out # <<>>
    /\ SubList(out, input)
    /\ IF NonPositive(input, state) = {}
       THEN out = input
       ELSE \E i \in 1..Len(input) :
               /\ IsMinPeak(i, input, state)
               /\ IF Predicted(input[i], state) <= state.memory_peak
                  THEN out = <<input[i]>>
                  ELSE out = SelectSeq(input, LAMBDA nm :
                                 nm = input[i]
                                 \/ getPeak(prob.nodes[nm]) < getPeak(prob.nodes[input[i]]))

\* the frames of a depth-first search that are in their loop
LoopFrames ==
    IF algo \in {"schedule", "scheduleWithLimits"}
    THEN {f \in Range(stack) : f.at = "loop"}
    ELSE {}

\* C25: the pruned list is the input when no candidate has dynamic impact
\* <= 0; otherwise, with N* the candidate of impact <= 0 of least peak, it is
\* N* alone when N*'s sequential peak does not exceed memory_peak, and else N*
\* with the candidates of peak strictly below N*'s; it is always a non-empty
\* sub-list of the input in the input's order.
C25_PruneRule == \A f \in LoopFrames : PruneRule(PrunedFrom(f), f.state, f.ready)

\* a search loops over a list pruned to N* alone by the first rule, another
\* candidate dropped
C25_Witness ==
    \E f \in LoopFrames :
        /\ NonPositive(PrunedFrom(f), f.state) # {}
        /\ Len(PrunedFrom(f)) > 1
        /\ Len(f.ready) = 1
        /\ Predicted(f.ready[1], f.state) <= f.state.memory_peak

\* the step is a spill of the bounded DFS: the frame on top is replaced by
\* one whose state has one spill more
SpillStep ==
    /\ algo = "scheduleWithLimits" /\ stack # <<>> /\ stack' # <<>>
    /\ Len(stack') = Len(stack)
    /\ Top'.state.spill_run = Top.state.spill_run + 1

\* C26: the bounded DFS spills a state only if every candidate of its
\* unpruned frontier (the ready set, or the recompute candidates when no node
\* is ready) has a sequential peak above total_memory.
C26_SpillTrigger ==
    [][SpillStep => AllExceed(LimitedCandidates(Top.state), Top.state)]_vars

\* the state the call on top of the stack was entered on before its first
\* spill: the execution its caller made last
BeforeSpill ==
    LET caller == stack[Len(stack) - 1]
    IN  executeNode(caller.ready[caller.i - 1], caller.state)

\* the bounded DFS has spilled a state whose pruned candidate list was
\* shorter than its frontier
C26_Witness ==
    /\ AtLimited("enter") /\ Len(stack) > 1 /\ Top.state.spill_run = 1
    /\ \E r \in SpillOutcomes(BeforeSpill) : r.ok /\ r.state = Top.state
    /\ pruneReadyListDynamic(LimitedCandidates(BeforeSpill), BeforeSpill)
           # LimitedCandidates(BeforeSpill)

\* size(v) / max(1, time_cost(v)) <= size(u) / max(1, time_cost(u))
ScoreAtMost(v, u, state) ==
    state.output_memory[v] * Max(1, prob.nodes[u].time_cost)
        <= state.output_memory[u] * Max(1, prob.nodes[v].time_cost)

\* t is s with the one entry u of output_memory removed, the schedule untouched
Evicts(s, t, u) ==
    /\ u \in Resident(s)
    /\ t.output_memory = Erase(s.output_memory, {u})
    /\ t.execution_order = s.execution_order
    /\ t.recompute_flags = s.recompute_flags
    /\ t.computed = s.computed
    /\ t.memory_peak = s.memory_peak
    /\ t.total_time = s.total_time

C28_SingleSpillRetry ==
    algo = "scheduleWithLimits" => \A state \in AllStates : state.spill_run <= 1

\* C29: a call of the bounded DFS that has passed its entry on a non-complete
\* state, and computes its ready set and sequential peaks from it, holds no
\* resident output without uncomputed consumer.
C29_CollectBeforeExpansion ==
    algo = "scheduleWithLimits" =>
        \A f \in LoopFrames :
            \A u \in Resident(f.state) : \E c \in Consumers(u) : c \notin f.state.computed

\* the counters of the bounded DFS add up and the counter of the remaining
\* expansions has not wrapped below zero
ExpansionsAccounted ==
    /\ expansionsLeft \in 0..max_expansions
    /\ stats.expansions + expansionsLeft = max_expansions

\* the step executes a node in the bounded DFS: a frame is pushed
LimitedExecutionStep == algo = "scheduleWithLimits" /\ Len(stack') > Len(stack)

\* C30: the bounded DFS never executes more than max_expansions nodes
\* (stats.expansions + expansionsLeft = max_expansions throughout, the counter
\* never below zero), and once the counter is zero or the deadline has passed
\* it executes no node and makes no spill.
C30_ExpansionBound ==
    /\ [](algo = "scheduleWithLimits" => ExpansionsAccounted)
    /\ [][(algo = "scheduleWithLimits" /\ LimitHit)
              => (~LimitedExecutionStep /\ ~SpillStep /\ stats' = stats)]_vars

\* the counter reached zero while a candidate of an open call was still to run
C30_Witness ==
    /\ AtLimited("loop") /\ Top.i <= Len(Top.ready)
    /\ expansionsLeft = 0 /\ stats.expansions = max_expansions
    /\ ~deadline_passed

\* the ready nodes and the recompute candidates of state
CandidatesOf(state) == Range(getReadyNodeNames(state)) \cup Range(getRecomputeCandidates(state))

\* executing n from state moves current_memory by the dynamic impact of n
MovesByImpact(n, state) ==
    executeNode(n, state).current_memory = state.current_memory + calculateDynamicImpact(n, state)

\* C31: for every state a scheduler holds and every ready or recompute
\* candidate n of it, executeNode(n, s).current_memory is s.current_memory
\* plus the dynamic impact of n (output_mem minus the resident sizes of the
\* inputs that become freeable).
C31_ImpactLaw == \A state \in AllStates : \A n \in CandidatesOf(state) : MovesByImpact(n, state)

\* every consumer of n is among the first k executions of state
ConsumersDoneBy(n, state, k) ==
    Consumers(n) \subseteq {state.execution_order[j] : j \in 1..k}

\* n has a consumer, and from the execution that completes its consumers on
\* n is neither resident nor executed
TerminallyAbsent(n, state) ==
    \A k \in 1..Len(state.execution_order) :
        ConsumersDoneBy(n, state, k) =>
            /\ n \notin Resident(state)
            /\ \A j \in (k + 1)..Len(state.execution_order) :
                  /\ state.execution_order[j] # n
                  /\ n \notin state.resident_log[j]

\* C32: once every consumer of a node n with at least one consumer has
\* executed, the output of n is absent from output_memory after the last of
\* these executions, and n is not executed and its output not resident again
\* on that path.
C32_OutputTerminalState ==
    \A state \in AllStates :
        \A n \in DOMAIN prob.nodes : Consumers(n) # {} => TerminallyAbsent(n, state)

\* the bounded DFS holds a path with a recomputation that went on after all
\* consumers of some node had executed
C32_Witness ==
    /\ algo = "scheduleWithLimits"
    /\ \E state \in AllStates :
          /\ \E j \in 1..Len(state.recompute_flags) : state.recompute_flags[j]
          /\ \E n \in DOMAIN prob.nodes :
                /\ Consumers(n) # {}
                /\ \E k \in 1..(Len(state.execution_order) - 1) : ConsumersDoneBy(n, state, k)

\* state with the output u evicted
Evicted(state, u) == [state EXCEPT !.output_memory = Erase(@, {u})]

\* the ready list of state names, once each, exactly the uncomputed nodes
\* whose inputs are all resident
ReadyExact(state) ==
    LET ready == getReadyNodeNames(state)
    IN  /\ Range(ready) = {n \in DOMAIN prob.nodes :
                              n \notin state.computed /\ prob.nodes[n].inputs \subseteq Resident(state)}
        /\ Len(ready) = Cardinality(Range(ready))

\* C33: getReadyNodeNames returns exactly the nodes that are not in computed
\* and whose every input is in output_memory; no computed node is ready, and
\* evicting an input of an uncomputed node takes that node off the ready set.
C33_ReadySet ==
    [](\A state \in AllStates :
        /\ ReadyExact(state)
        /\ Range(getReadyNodeNames(state)) \cap state.computed = {}
        /\ \A u \in Resident(state) :
              \A n \in DOMAIN prob.nodes :
                  (n \notin state.computed /\ u \in prob.nodes[n].inputs)
                      => n \notin Range(getReadyNodeNames(Evicted(state, u))))

\* a spill of the bounded DFS has evicted an input of a node that was ready,
\* and the node is ready no more
C33_Witness ==
    /\ AtLimited("enter") /\ Len(stack) > 1 /\ Top.state.spill_run = 1
    /\ \E r \in SpillOutcomes(BeforeSpill) : r.ok /\ r.state = Top.state
    /\ \E n \in Range(getReadyNodeNames(BeforeSpill)) :
          /\ prob.nodes[n].inputs \cap (Resident(BeforeSpill) \ Resident(Top.state)) # {}
          /\ n \notin Range(getReadyNodeNames(Top.state))

\* the recompute list of state names, once each, exactly the nodes without
\* resident output, with an uncomputed consumer and with all inputs resident
RecomputeExact(state) ==
    LET cands == getRecomputeCandidates(state)
    IN  /\ Range(cands) = {n \in DOMAIN prob.nodes :
                              /\ n \notin Resident(state)
                              /\ \E c \in Consumers(n) : c \notin state.computed
                              /\ prob.nodes[n].inputs \subseteq Resident(state)}
        /\ Len(cands) = Cardinality(Range(cands))

\* the candidates a call of the bounded DFS loops over come from the ready
\* set when it is not empty, and from the recompute candidates otherwise
ConsultedWhenEmpty(f) ==
    IF getReadyNodeNames(f.state) # <<>>
    THEN /\ Range(f.ready) \subseteq Range(getReadyNodeNames(f.state))
         /\ Range(f.ready) \cap f.state.computed = {}
    ELSE Range(f.ready) \subseteq Range(getRecomputeCandidates(f.state))

\* C34: getRecomputeCandidates returns exactly the nodes whose output is not
\* in output_memory, that have an uncomputed consumer and whose every input
\* is in output_memory; the bounded DFS takes its candidates from them only
\* when the ready set is empty.
C34_RecomputeCandidates ==
    [](/\ \A state \in AllStates : RecomputeExact(state)
       /\ algo = "scheduleWithLimits" => \A f \in LoopFrames : ConsultedWhenEmpty(f))

\* a call of the bounded DFS loops over recompute candidates, no node being ready
C34_Witness ==
    /\ algo = "scheduleWithLimits"
    /\ \E f \in LoopFrames :
          /\ getReadyNodeNames(f.state) = <<>>
          /\ f.ready # <<>>
          /\ Range(f.ready) \subseteq f.state.computed

\* C35: every step dpGreedySchedule takes starts a rollout whose final peak
\* is within total_memory, so the state it holds and the schedule it returns
\* have memory_peak <= total_memory.
C35_DpGreedyFeasible ==
    algo = "dpGreedySchedule" =>
        /\ cur.memory_peak <= prob.total_memory
        /\ result.memory_peak <= prob.total_memory

\* the ready nodes of state whose sequential peak is within the budget
Fitting(state) ==
    {n \in Range(getReadyNodeNames(state)) : Predicted(n, state) <= prob.total_memory}

\* n is what the heuristic rule selects in state
HeuristicChoice(n, state) ==
    LET nonPositive == {m \in Fitting(state) : calculateDynamicImpact(m, state) <= 0}
    IN  /\ n \in Fitting(state)
        /\ IF nonPositive # {}
           THEN /\ n \in nonPositive
                /\ \A m \in nonPositive : getPeak(prob.nodes[n]) <= getPeak(prob.nodes[m])
           ELSE \A m \in Fitting(state) :
                   \/ Predicted(n, state) < Predicted(m, state)
                   \/ /\ Predicted(n, state) = Predicted(m, state)
                      /\ prob.nodes[n].time_cost <= prob.nodes[m].time_cost

\* C36: each step of heuristicSchedule executes, among the ready nodes whose
\* sequential peak fits the budget, a node of dynamic impact <= 0 of least
\* peak if there is one, and else the node of least (sequential_peak,
\* time_cost); it stops when no ready node fits the budget.
C36_HeuristicRule ==
    /\ [][(algo = "heuristicSchedule" /\ cur' # cur)
             => \E n \in DOMAIN prob.nodes :
                   /\ HeuristicChoice(n, cur)
                   /\ Core(cur') = Core(executeNode(n, cur))]_vars
    /\ []((algo = "heuristicSchedule" /\ pc = "done")
             => (result = cur /\ (IsComplete(result) \/ Fitting(result) = {})))

\* heuristicSchedule has executed a node of impact <= 0 in a state where a
\* fitting node of positive impact was no worse in (sequential_peak, time_cost)
C36_Witness ==
    /\ algo = "heuristicSchedule" /\ cur.execution_order # <<>>
    /\ LET k == Len(cur.execution_order)
           n == cur.execution_order[k]
           before == Replay(cur.execution_order, k - 1)
       IN  /\ calculateDynamicImpact(n, before) <= 0
           /\ \E m \in Fitting(before) :
                 /\ calculateDynamicImpact(m, before) > 0
                 /\ \/ Predicted(m, before) < Predicted(n, before)
                    \/ /\ Predicted(m, before) = Predicted(n, before)
                       /\ prob.nodes[m].time_cost <= prob.nodes[n].time_cost

\* t differs from s in output_memory and current_memory at most
SameButMemory(s, t) ==
    /\ t.execution_order = s.execution_order
    /\ t.recompute_flags = s.recompute_flags
    /\ t.computed = s.computed
    /\ t.memory_peak = s.memory_peak
    /\ t.total_time = s.total_time

\* C37: for every state a scheduler holds, garbageCollectOutputs applied
\* twice gives the state it gives applied once, and it changes output_memory
\* and current_memory only.
C37_GcIdempotent ==
    [](\A state \in AllStates :
        LET once == garbageCollectOutputs(state)
        IN  /\ garbageCollectOutputs(once) = once
            /\ SameButMemory(state, once))

\* a call of dfsSchedule loops on the collected state, the collection having
\* removed an output from the state the call was entered on
C37_Witness ==
    /\ AtDfs("loop") /\ Len(stack) > 1
    /\ LET caller == stack[Len(stack) - 1]
           entered == executeNode(caller.ready[caller.i - 1], caller.state)
       IN  /\ Top.state = garbageCollectOutputs(entered)
           /\ Resident(Top.state) # Resident(entered)

\* the bounded DFS is about to spill the state on top of its stack
SpillDue ==
    /\ AtLimited("enter") /\ ~LimitHit /\ ~IsComplete(Top.state)
    /\ LimitedCandidates(Top.state) # <<>>
    /\ AllExceed(pruneReadyListDynamic(LimitedCandidates(Top.state), Top.state), Top.state)

\* current_memory less every size a spill of state subtracts, unclamped: the
\* sizes of the resident outputs without remaining consumer and the size of
\* the evicted output u
AfterSpillUnclamped(state, u) ==
    state.current_memory
        - SumOver(state.output_memory,
                  {v \in Resident(state) : \A c \in Consumers(v) : c \in state.computed})
        - state.output_memory[u]

\* current_memory less the sizes a garbage collection of state subtracts, unclamped
AfterGcUnclamped(state) ==
    state.current_memory
        - SumOver(state.output_memory,
                  {v \in Resident(state) : \A c \in Consumers(v) : c \in state.computed})

\* C38: the clamp at zero is never engaged: the value current_memory +
\* output_mem - freed of an execution, and the values current_memory - size
\* of a spill and of a garbage collection, are >= 0 before clamping in every
\* state a scheduler holds.
C38_ClampNeverEngaged ==
    /\ \A state \in AllStates : \A n \in CandidatesOf(state) :
          state.current_memory + calculateDynamicImpact(n, state) >= 0
    /\ SpillDue => \A r \in SpillOutcomes(Top.state) :
          \A u \in Resident(Top.state) \ Resident(r.state) : AfterSpillUnclamped(Top.state, u) >= 0
    /\ AtDfs("enter") => AfterGcUnclamped(Top.state) >= 0

\* state is the empty ScheduleState{} as far as a caller can see
LooksEmpty(state) ==
    state.execution_order = <<>> /\ state.total_time = 0 /\ state.memory_peak = 0

\* C39: the state the bounded DFS returns has every node of the Problem in
\* computed, or has an empty execution_order with total_time 0 and
\* memory_peak 0; the stored best is never a partial schedule.
C39_CompleteOrEmpty ==
    algo = "scheduleWithLimits" =>
        /\ has_best => DOMAIN prob.nodes \subseteq best.computed
        /\ pc = "done" => (DOMAIN prob.nodes \subseteq result.computed \/ LooksEmpty(result))

\* the bounded DFS has returned the empty state after executing nodes
C39_Witness ==
    /\ algo = "scheduleWithLimits" /\ pc = "done"
    /\ stats.expansions > 0
    /\ LooksEmpty(result) /\ prob.nodes # EmptyMap

\* the last recompute flag of the state reached by executing n from state
FlagOf(n, state) ==
    LET next == executeNode(n, state)
    IN  next.recompute_flags[Len(next.recompute_flags)]

\* the candidates of a call of the bounded DFS are recomputations exactly
\* when they come from the recompute candidates
RecomputeOnlyThroughPath(f) ==
    IF getReadyNodeNames(f.state) = <<>>
    THEN \A n \in Range(f.ready) : n \in f.state.computed /\ FlagOf(n, f.state)
    ELSE \A n \in Range(f.ready) : n \notin f.state.computed /\ ~FlagOf(n, f.state)

\* no name occurs twice in the execution_order of state
ExecutesAtMostOnce(state) ==
    \A i, j \in 1..Len(state.execution_order) :
        state.execution_order[i] = state.execution_order[j] => i = j

OnceAlgos == {"schedule", "greedySchedule", "heuristicSchedule", "beamSearchSchedule"}

\* C40: a node the bounded DFS takes from getRecomputeCandidates is in
\* computed and its execution is flagged as a recomputation; a node it takes
\* from the ready set is not in computed and its execution is not flagged;
\* schedule(), greedySchedule, heuristicSchedule and beamSearchSchedule
\* execute every node at most once.
C40_RecomputePath ==
    /\ algo = "scheduleWithLimits" => \A f \in LoopFrames : RecomputeOnlyThroughPath(f)
    /\ algo \in OnceAlgos => \A state \in AllStates : ExecutesAtMostOnce(state)

\* the bounded DFS has executed a recompute candidate, no node being ready
C40_Witness ==
    /\ algo = "scheduleWithLimits" /\ pc = "run" /\ Len(stack) > 1
    /\ LET caller == stack[Len(stack) - 1]
       IN  /\ caller.at = "loop" /\ caller.i > 1
           /\ getReadyNodeNames(caller.state) = <<>>
           /\ Top.state.spill_run = 0
           /\ Top.state = executeNode(caller.ready[caller.i - 1], caller.state)
           /\ Top.state.recompute_flags[Len(Top.state.recompute_flags)]

====
